---- MODULE Spec2Model ----
(***************************************************************************)
(* Model of phil-core's Launcher (src/phil-core/src/launch.rs): the        *)
(* sequential procedure initialize_cluster, cut into one step per          *)
(* interaction with the outside world (a process spawn, an admin command,  *)
(* a kill, a wait).  The process substrate and the database servers are    *)
(* the environment: every spawn may fail, every admin command may fail in  *)
(* transport or be answered by any well-formed or malformed document.      *)
(***************************************************************************)
EXTENDS Integers, Sequences, FiniteSets, TLC

\* ------------------------------------------------------------------ bounds
MaxMembers == 3      \* members of a ReplicaSet topology: 0..MaxMembers
MaxShards == 2       \* shards of a Sharded topology: 0..MaxShards
MaxShardSize == 2    \* data directories of one shard: 0..MaxShardSize
MaxRouters == 2      \* num_mongos: 0..MaxRouters
MaxShardDirs == 4    \* data directories of all shards together
WideMembers == 7     \* members of a ReplicaSet topology in WideSpec
WideShards == 5      \* shards of a Sharded topology in WideSpec
AllocCalls == 3      \* calls of an allocator in AllocSpec

\* ------------------------------------------------------- program constants
BasePort == 27017
SinglePort == 27017
HostsBasePort == 27017
SingleHostPort == 27017

\* --------------------------------------------------------------- Option<T>
None == [some |-> FALSE]
Some(x) == [some |-> TRUE, val |-> x]

\* ----------------------------------------------------------------- helpers
RECURSIVE Join(_, _)
Join(strs, sep) ==
    IF strs = <<>> THEN ""
    ELSE IF Len(strs) = 1 THEN strs[1]
    ELSE strs[1] \o sep \o Join(Tail(strs), sep)

Range(s) == { s[i] : i \in DOMAIN s }

\* StreamAddress { hostname: "localhost", port: Some(port) }
localhost_address(port) == [hostname |-> "localhost", port |-> port]

\* Display of a StreamAddress: "<hostname>:<port>"
AddressToString(a) == a.hostname \o ":" \o ToString(a.port)

\* ------------------------------------------------------------------ inputs
DbPath(s, j) == "/tmp/phil-mongodb-" \o ToString(s) \o "-" \o ToString(j)

DbPaths(s, n) == [j \in 1..n |-> DbPath(s, j)]

ConfigDbPath == "/tmp/phil-mongodb-config"

SetNames == {"test-repl-set", "phil"}

RECURSIVE Sum(_)
Sum(s) == IF s = <<>> THEN 0 ELSE s[1] + Sum(Tail(s))

\* the numbers of data directories of the shards, MaxShardDirs in all at most
ShardSizeSeqs ==
    { s \in UNION { [1..k -> 0..MaxShardSize] : k \in 0..MaxShards } :
        Sum(s) <= MaxShardDirs }

Topologies ==
    {[kind |-> "Single"]}
    \cup {[kind |-> "ReplicaSet", set_name |-> s, db_paths |-> DbPaths(0, n)] :
            s \in SetNames, n \in 0..MaxMembers}
    \cup {[kind |-> "Sharded", num_mongos |-> m,
           shard_db_paths |-> [i \in DOMAIN sizes |-> DbPaths(i, sizes[i])],
           config_db_path |-> ConfigDbPath] :
            m \in 0..MaxRouters, sizes \in ShardSizeSeqs}

\* the shapes of the port allocation: no empty set, shard or router list
WideTopologies ==
    {[kind |-> "Single"]}
    \cup {[kind |-> "ReplicaSet", set_name |-> "test-repl-set", db_paths |-> DbPaths(0, n)] :
            n \in 1..WideMembers}
    \cup {[kind |-> "Sharded", num_mongos |-> m,
           shard_db_paths |-> [i \in DOMAIN sizes |-> DbPaths(i, sizes[i])],
           config_db_path |-> ConfigDbPath] :
            m \in 1..MaxRouters,
            sizes \in UNION { [1..k -> 1..MaxShardSize] : k \in 1..WideShards }}

TheCredential == [username |-> "phil", password |-> "ravi", key_file |-> "/tmp/phil-keyfile"]

TheTls == [weak_tls |-> TRUE, ca_file_path |-> "/ca.pem",
           server_cert_file_path |-> "/server.pem"]

StrictTls == [weak_tls |-> FALSE, ca_file_path |-> "/ca.pem",
              server_cert_file_path |-> "/server.pem"]

\* caller-supplied passthrough flags
ExtraArgs ==
    {<<>>, <<"--quiet">>, <<"--setParameter", "enableTestCommands=1">>,
     <<"--quiet", "--setParameter", "enableTestCommands=1",
       "--setParameter", "ttlMonitorEnabled=false", "--nojournal">>,
     <<"--quiet", "--setParameter">>}

\* what monger's default arguments for the version split into, if it has any
DefaultArgs == {None, Some(<<"--setParameter", "diagnosticDataCollectionEnabled=false">>)}

\* the launches whose argument vectors are examined: every role of a process
ArgsTopologies ==
    {[kind |-> "Single"],
     [kind |-> "ReplicaSet", set_name |-> "phil", db_paths |-> DbPaths(0, 2)],
     [kind |-> "Sharded", num_mongos |-> 1,
      shard_db_paths |-> <<DbPaths(1, 1), DbPaths(2, 2)>>,
      config_db_path |-> ConfigDbPath]}

VARIABLES
    \* Launcher fields
    topology, tls, credential, nodes, routers, next_port, shard_count,
    deprecated_tls_options, extra_mongod_args, monger_default_args,
    \* locals of initialize_cluster
    pc, client_options, local_credential, mongos_ports, config_db_port,
    shard_i, pre_auth_nodes, pre_auth_routers, restarting,
    \* locals of start_repl_set / configure_repl_set / add_*_shard
    rs, conn, cmd, already_initialized,
    \* outcome of initialize_cluster
    result,
    \* environment: the spawned processes, the servers' replica-set state
    procs, initiated,
    \* the answer of the server to the command sent last
    response,
    \* use of the returned handle (cluster/test.rs)
    test_response,
    \* history of the launch's interactions, in order
    log

vars == <<topology, tls, credential, nodes, routers, next_port, shard_count,
          deprecated_tls_options, extra_mongod_args, monger_default_args,
          pc, client_options, local_credential, mongos_ports, config_db_port,
          shard_i, pre_auth_nodes, pre_auth_routers, restarting,
          rs, conn, cmd, already_initialized, result, procs, initiated,
          response, test_response, log>>

launcherVars == <<topology, tls, deprecated_tls_options, extra_mongod_args,
                  monger_default_args>>

\* ------------------------------------------------------ Launcher::new
NoRs == [name |-> "", config_server |-> FALSE, shard_server |-> FALSE,
         db_paths |-> <<>>, caller |-> "none", log |-> FALSE]

NoConn == [hosts |-> <<>>, credential |-> None, direct |-> FALSE]

NoCmd == [name |-> "none"]

NoResponse == [cmd |-> "none"]

InitAt(topologies, credentials, tlss, deprecateds, extras, defaults, ports, counts) ==
    /\ topology \in topologies
    /\ tls \in tlss
    /\ credential \in credentials
    /\ nodes = <<>>
    /\ routers = <<>>
    /\ next_port \in ports
    /\ shard_count \in counts
    /\ deprecated_tls_options \in deprecateds
    /\ extra_mongod_args \in extras
    /\ monger_default_args \in defaults
    /\ pc = "start"
    /\ client_options = [hosts |-> <<>>, repl_set_name |-> None,
                         credential |-> None, tls |-> None]
    /\ local_credential = None
    /\ mongos_ports = <<>>
    /\ config_db_port = 0
    /\ shard_i = 1
    /\ pre_auth_nodes = <<>>
    /\ pre_auth_routers = <<>>
    /\ restarting = None
    /\ rs = NoRs
    /\ conn = NoConn
    /\ cmd = NoCmd
    /\ already_initialized = FALSE
    /\ result = [kind |-> "running"]
    /\ procs = <<>>
    /\ initiated = {}
    /\ response = NoResponse
    /\ test_response = None
    /\ log = <<>>

\* lines 90-91: next_port: 27017, shard_count: 0
InitFor(topologies, credentials, tlss, deprecateds, extras) ==
    InitAt(topologies, credentials, tlss, deprecateds, extras, {None}, {BasePort}, {0})

InitWith(topologies, credentials) ==
    InitFor(topologies, credentials, {None}, {FALSE}, {<<>>})

Init == InitWith(Topologies, {None, Some(TheCredential)})

\* ------------------------------------------------------ allocator
U16 == 65536
U8 == 256

PortAfter_skip(p) == (p + 2) % U16

PortAfter_stuck(p) == p

\* next_port: the value returned and the counter after the call
PortAfter(p) == (p + 1) % U16

ShardCountAfter_stuck(c) == c

\* next_shard_id: the counter after the call
ShardCountAfter(c) == (c + 1) % U8

AllocatedPorts_same(p, k) == [i \in 1..k |-> p]

\* (0..num_mongos).map(|_| self.next_port()).collect()
AllocatedPorts(p, k) == [i \in 1..k |-> (p + i - 1) % U16]

\* ------------------------------------------------------ repl_set_addresses
repl_set_addresses_skipfirst(repl_set_name) ==
    LET RECURSIVE Ports(_)
        Ports(i) == IF i > Len(nodes) THEN <<>>
                    ELSE (IF nodes[i].options.repl_set_name = Some(repl_set_name) /\ i > 1
                          THEN <<nodes[i].options.port>> ELSE <<>>)
                         \o Ports(i + 1)
    IN Ports(1)

repl_set_addresses(repl_set_name) ==
    LET RECURSIVE Ports(_)
        Ports(i) == IF i > Len(nodes) THEN <<>>
                    ELSE (IF nodes[i].options.repl_set_name = Some(repl_set_name)
                          THEN <<nodes[i].options.port>> ELSE <<>>)
                         \o Ports(i + 1)
    IN Ports(1)

\* ------------------------------------------------------ argument vectors
TlsArgs_mongod(tlsopt, deprecated, router) ==
    IF ~tlsopt.some THEN <<>>
    ELSE (IF deprecated
          THEN <<"--sslMode", "requireSSL", "--sslCAFile", tlsopt.val.ca_file_path,
                 "--sslPEMKeyFile", tlsopt.val.server_cert_file_path>>
          ELSE <<"--tlsMode", "requireTLS", "--tlsCAFile", tlsopt.val.ca_file_path,
                 "--tlsCertificateKeyFile", tlsopt.val.server_cert_file_path>>)
         \o (IF tlsopt.val.weak_tls
             THEN <<"--tlsAllowConnectionsWithoutCertificates">> ELSE <<>>)

\* lines 138-166 (start_mongod) and 388-414 (start_mongos): the TLS flags
TlsArgs(tlsopt, deprecated, router) ==
    IF ~tlsopt.some THEN <<>>
    ELSE (IF deprecated
          THEN <<"--sslMode", "requireSSL", "--sslCAFile", tlsopt.val.ca_file_path,
                 "--sslPEMKeyFile", tlsopt.val.server_cert_file_path>>
               \o (IF router THEN <<"--sslAllowInvalidCertificates">> ELSE <<>>)
          ELSE <<"--tlsMode", "requireTLS", "--tlsCAFile", tlsopt.val.ca_file_path,
                 "--tlsCertificateKeyFile", tlsopt.val.server_cert_file_path>>
               \o (IF router THEN <<"--tlsAllowInvalidCertificates">> ELSE <<>>))
         \o (IF tlsopt.val.weak_tls
             THEN <<"--tlsAllowConnectionsWithoutCertificates">> ELSE <<>>)

MongodAuthArgs(cred) ==
    IF cred.some THEN <<"--auth", "--keyFile", cred.val.key_file>> ELSE <<>>

MongodArgs_extrafirst(options, cred, tlsopt, deprecated, extra) ==
    <<"--port", ToString(options.port)>>
    \o extra
    \o (IF options.db_path.some THEN <<"--dbpath", options.db_path.val>> ELSE <<>>)
    \o MongodAuthArgs(cred)
    \o (IF options.repl_set_name.some
        THEN <<"--replSet", options.repl_set_name.val>> ELSE <<>>)
    \o (IF options.config_server THEN <<"--configsvr">> ELSE <<>>)
    \o TlsArgs(tlsopt, deprecated, FALSE)
    \o (IF options.shard_server THEN <<"--shardsvr">> ELSE <<>>)

\* lines 118-174: the argument vector of start_mongod
MongodArgs(options, cred, tlsopt, deprecated, extra) ==
    <<"--port", ToString(options.port)>>
    \o (IF options.db_path.some THEN <<"--dbpath", options.db_path.val>> ELSE <<>>)
    \o MongodAuthArgs(cred)
    \o (IF options.repl_set_name.some
        THEN <<"--replSet", options.repl_set_name.val>> ELSE <<>>)
    \o (IF options.config_server THEN <<"--configsvr">> ELSE <<>>)
    \o TlsArgs(tlsopt, deprecated, FALSE)
    \o (IF options.shard_server THEN <<"--shardsvr">> ELSE <<>>)
    \o extra

SetParameterArgs_all(potential) == potential

\* the first "--setParameter" of the candidates and the argument after it
SetParameterArgs(potential) ==
    LET hits == { i \in DOMAIN potential : potential[i] = "--setParameter" }
    IN IF hits = {} THEN <<>>
       ELSE LET i == CHOOSE j \in hits : \A k \in hits : j <= k
            IN <<"--setParameter">>
               \o (IF i + 1 \in DOMAIN potential THEN <<potential[i + 1]>> ELSE <<>>)

MongosAuthArgs_always(cred) == <<"--keyFile", TheCredential.key_file>>

MongosAuthArgs(cred) ==
    IF cred.some THEN <<"--keyFile", cred.val.key_file>> ELSE <<>>

MongosArgs(options, cred, tlsopt, deprecated, extra, defaults) ==
    <<"--port", ToString(options.port), "--configdb",
      options.config_db_name \o "/localhost:" \o ToString(options.config_db_port)>>
    \o SetParameterArgs(extra \o (IF defaults.some THEN defaults.val ELSE <<>>))
    \o TlsArgs(tlsopt, deprecated, TRUE)
    \o MongosAuthArgs(cred)

\* ------------------------------------------------------ environment
\* What run_command can yield for replSetInitiate/replSetReconfig/addShard:
\* a transport error, a document that does not deserialize as CommandResponse,
\* or a document with ok and an optional codeName.
CommandResponses ==
    {[kind |-> "err"], [kind |-> "malformed"],
     [kind |-> "doc", ok |-> 1, code_name |-> None]}
    \cup {[kind |-> "doc", ok |-> 0, code_name |-> c] :
            c \in {None, Some("AlreadyInitialized"), Some("NodeNotFound")}}

\* What run_command can yield for replSetGetStatus on a set of n members.
StatusResponses(n) ==
    {[kind |-> "err"], [kind |-> "malformed"],
     [kind |-> "doc", members |-> [i \in 1..n |-> [state_str |-> "STARTUP2"]]],
     [kind |-> "doc", members |-> [i \in 1..n |-> [state_str |-> "SECONDARY"]]]}
    \cup {[kind |-> "doc", members |->
             [i \in 1..n |-> [state_str |-> IF i = p THEN "PRIMARY" ELSE "SECONDARY"]]] :
            p \in {n} \ {0}}

\* ------------------------------------------------------ history
SpawnEvent(kind, args) ==
    [ev |-> "spawn", pid |-> Len(procs) + 1, kind |-> kind, args |-> args]

SendEvent(c, cn) == [ev |-> "send", cmd |-> c, conn |-> cn]

\* a re-send of the command sent last is not recorded again
LogSend(c, cn) ==
    IF log # <<>> /\ log[Len(log)] = SendEvent(c, cn) THEN log
    ELSE Append(log, SendEvent(c, cn))

\* what run_command returned for command c
Received(c, r) == [cmd |-> c.name, r |-> r]

NewProc(kind, args) == [kind |-> kind, args |-> args, state |-> "running"]

Fail(error) ==
    /\ pc' = "error"
    /\ result' = [kind |-> "err", error |-> error]

Panic ==
    /\ pc' = "panic"
    /\ result' = [kind |-> "panic"]

TransportError_fatal == Fail("Mongo")

\* lines 255-260, 289-294, 477-482: Err(_) of run_command => sleep 250 ms, continue
TransportError == UNCHANGED <<pc, result>>

SpawnFailure_cleanup ==
    /\ Fail("Monger")
    /\ procs' = [p \in DOMAIN procs |-> [procs[p] EXCEPT !.state = "exited"]]

\* lines 204, 434-436: `?` returns the Err of the process substrate; the Launcher
\* and its Child handles are dropped, which signals no process
SpawnFailure ==
    /\ Fail("Monger")
    /\ UNCHANGED procs

\* ------------------------------------------------------ variable groups
allocVars == <<next_port, shard_count>>
shardedVars == <<mongos_ports, config_db_port, shard_i>>
restartVars == <<pre_auth_nodes, pre_auth_routers, restarting>>
rsVars == <<rs, conn, cmd, already_initialized>>
envVars == <<initiated, response, test_response>>
credVars == <<credential, local_credential>>

\* ------------------------------------------------------ specs and documents
ConfigDbName == "phil-config-server"

ShardName(id) == "phil-replset-shard-" \o ToString(id)

SingleOptions_shard ==
    [port |-> SinglePort, db_path |-> None, config_server |-> FALSE,
     shard_server |-> TRUE, repl_set_name |-> None]

SingleOptions ==
    [port |-> SinglePort, db_path |-> None, config_server |-> FALSE,
     shard_server |-> FALSE, repl_set_name |-> None]

ReplSetMemberOptions(port, db_path, r) ==
    [port |-> port, db_path |-> Some(db_path), config_server |-> r.config_server,
     shard_server |-> r.shard_server, repl_set_name |-> Some(r.name)]

ConfigDbOptions(port, name, db_path) ==
    [port |-> port, db_path |-> Some(db_path), config_server |-> TRUE,
     shard_server |-> FALSE, repl_set_name |-> Some(name)]

SingletonShardOptions_named(port, db_path) ==
    [port |-> port, db_path |-> Some(db_path), config_server |-> FALSE,
     shard_server |-> TRUE, repl_set_name |-> Some(ShardName(0))]

SingletonShardOptions(port, db_path) ==
    [port |-> port, db_path |-> Some(db_path), config_server |-> FALSE,
     shard_server |-> TRUE, repl_set_name |-> None]

MongosOptions_self(port, cfg_port, cfg_name) ==
    [port |-> port, config_db_port |-> port, config_db_name |-> cfg_name]

\* lines 594-598: the MongosOptions of a router
MongosOptions(port, cfg_port, cfg_name) ==
    [port |-> port, config_db_port |-> cfg_port, config_db_name |-> cfg_name]

ReplSetConfig_always(set_name, config_server) ==
    LET ports == repl_set_addresses(set_name)
    IN [_id |-> set_name, configsvr |-> TRUE,
        members |-> [i \in DOMAIN ports |->
                       [_id |-> i - 1,
                        host |-> AddressToString(localhost_address(ports[i]))]]]

ReplSetConfig_ids(set_name, config_server) ==
    LET ports == repl_set_addresses(set_name)
    IN [_id |-> set_name, configsvr |-> config_server,
        members |-> [i \in DOMAIN ports |->
                       [_id |-> i,
                        host |-> AddressToString(localhost_address(ports[i]))]]]

ReplSetConfig_cfgname(set_name, config_server) ==
    LET ports == repl_set_addresses(set_name)
    IN [_id |-> ConfigDbName, configsvr |-> config_server,
        members |-> [i \in DOMAIN ports |->
                       [_id |-> i - 1,
                        host |-> AddressToString(localhost_address(ports[i]))]]]

\* the config document of configure_repl_set
ReplSetConfig(set_name, config_server) ==
    LET ports == repl_set_addresses(set_name)
    IN [_id |-> set_name, configsvr |-> config_server,
        members |-> [i \in DOMAIN ports |->
                       [_id |-> i - 1,
                        host |-> AddressToString(localhost_address(ports[i]))]]]

\* the client of configure_repl_set: a direct connection to the first member
ReplSetConn(set_name) ==
    [hosts |-> <<localhost_address(repl_set_addresses(set_name)[1])>>,
     credential |-> credential, direct |-> TRUE]

RouterConn_last(mongos_port) ==
    [hosts |-> <<localhost_address(mongos_ports[Len(mongos_ports)])>>,
     credential |-> credential, direct |-> FALSE]

RouterConn_config(mongos_port) ==
    [hosts |-> <<localhost_address(config_db_port)>>,
     credential |-> credential, direct |-> FALSE]

\* the client of add_singleton_shard and add_replset_shard
RouterConn(mongos_port) ==
    [hosts |-> <<localhost_address(mongos_port)>>,
     credential |-> credential, direct |-> FALSE]

AddSingletonShardCmd(port, name) ==
    [name |-> "addShard", addShard |-> AddressToString(localhost_address(port)),
     shard |-> name]

AddReplsetShardCmd_first(name) ==
    LET addrs == repl_set_addresses(name)
    IN [name |-> "addShard",
        addShard |-> name \o "/" \o AddressToString(localhost_address(addrs[1])),
        shard |-> name]

AddReplsetShardCmd(name) ==
    LET addrs == repl_set_addresses(name)
        node_addresses == [i \in DOMAIN addrs |-> AddressToString(localhost_address(addrs[i]))]
    IN [name |-> "addShard", addShard |-> name \o "/" \o Join(node_addresses, ","),
        shard |-> name]

CreateUserCmd(cred) ==
    [name |-> "createUser", createUser |-> cred.username, pwd |-> cred.password,
     roles |-> <<"root">>]

\* client_options.hosts per topology
SingleHosts == <<localhost_address(SingleHostPort)>>

ReplSetHosts_shifted(n) ==
    [i \in 1..n |-> localhost_address((HostsBasePort + i) % U16)]

ReplSetHosts(n) == [i \in 1..n |-> localhost_address((HostsBasePort + (i - 1)) % U16)]

ShardedHosts(ports) == [i \in DOMAIN ports |-> localhost_address(ports[i])]

EnterReplSet_early(db_paths) == IF Len(db_paths) <= 1 THEN "rs_configure" ELSE "rs_spawn"

EnterReplSet(db_paths) == IF db_paths = <<>> THEN "rs_configure" ELSE "rs_spawn"

\* ------------------------------------------------------ initialize_cluster
Taken_kept(cred) == cred

\* line 551: what self.credential.take() leaves in the Launcher
Taken(cred) == None

\* lines 547-553 and the allocations that precede the first spawn
Start ==
    /\ pc = "start"
    /\ local_credential' = credential
    /\ credential' = Taken(credential)
    /\ client_options' = [client_options EXCEPT !.tls = tls]
    /\ CASE topology.kind = "Single" ->
              /\ pc' = "single"
              /\ UNCHANGED <<rs, next_port, mongos_ports, config_db_port>>
         [] topology.kind = "ReplicaSet" ->
              /\ rs' = [name |-> topology.set_name, config_server |-> FALSE,
                        shard_server |-> FALSE, db_paths |-> topology.db_paths,
                        caller |-> "replset", log |-> TRUE]
              /\ pc' = EnterReplSet(topology.db_paths)
              /\ UNCHANGED <<next_port, mongos_ports, config_db_port>>
         [] topology.kind = "Sharded" ->
              /\ mongos_ports' = AllocatedPorts(next_port, topology.num_mongos)
              /\ config_db_port' = (next_port + topology.num_mongos) % U16
              /\ next_port' = PortAfter((next_port + topology.num_mongos) % U16)
              /\ pc' = "config_db"
              /\ UNCHANGED rs
    /\ UNCHANGED <<launcherVars, nodes, routers, shard_count, shard_i, restartVars,
                   conn, cmd, already_initialized, result, procs, envVars, log>>

\* Topology::Single
StartSingle ==
    /\ pc = "single"
    /\ LET args == MongodArgs(SingleOptions, credential, tls, deprecated_tls_options,
                              extra_mongod_args)
       IN \E spawned \in BOOLEAN :
            IF spawned
            THEN /\ procs' = Append(procs, NewProc("mongod", args))
                 /\ log' = Append(log, SpawnEvent("mongod", args))
                 /\ nodes' = Append(nodes, [process |-> Len(procs) + 1,
                                             options |-> SingleOptions])
                 /\ client_options' = [client_options EXCEPT !.hosts = SingleHosts]
                 /\ pc' = "post_topology"
                 /\ UNCHANGED result
            ELSE /\ SpawnFailure
                 /\ UNCHANGED <<log, nodes, client_options>>
    /\ UNCHANGED <<launcherVars, credVars, routers, allocVars, shardedVars, restartVars,
                   rsVars, envVars>>

\* start_repl_set: one iteration of the loop over db_paths
StartReplSetMember ==
    /\ pc = "rs_spawn"
    /\ rs.db_paths # <<>>
    /\ next_port' = PortAfter(next_port)
    /\ LET options == ReplSetMemberOptions(next_port, Head(rs.db_paths), rs)
           args == MongodArgs(options, credential, tls, deprecated_tls_options,
                              extra_mongod_args)
       IN \E spawned \in BOOLEAN :
            IF spawned
            THEN /\ procs' = Append(procs, NewProc("mongod", args))
                 /\ log' = Append(log, SpawnEvent("mongod", args))
                 /\ nodes' = Append(nodes, [process |-> Len(procs) + 1,
                                             options |-> options])
                 /\ rs' = [rs EXCEPT !.db_paths = Tail(rs.db_paths)]
                 /\ pc' = EnterReplSet(Tail(rs.db_paths))
                 /\ UNCHANGED result
            ELSE /\ SpawnFailure
                 /\ UNCHANGED <<log, nodes, rs>>
    /\ UNCHANGED <<launcherVars, credVars, routers, shard_count, shardedVars,
                   restartVars, conn, cmd, already_initialized, client_options, envVars>>

\* configure_repl_set up to its first loop
ConfigureReplSet ==
    /\ pc = "rs_configure"
    /\ IF repl_set_addresses(rs.name) = <<>>
       THEN /\ Panic
            /\ UNCHANGED <<conn, cmd, already_initialized>>
       ELSE /\ conn' = ReplSetConn(rs.name)
            /\ cmd' = [name |-> "replSetInitiate",
                       config |-> ReplSetConfig(rs.name, rs.config_server)]
            /\ already_initialized' = FALSE
            /\ pc' = "rs_initiate"
            /\ UNCHANGED result
    /\ UNCHANGED <<launcherVars, credVars, nodes, routers, allocVars, shardedVars,
                   restartVars, rs, client_options, procs, envVars, log>>

\* what the servers hold after acknowledging a replSetInitiate/replSetReconfig
Configured(config) ==
    { [host |-> config.members[i].host, set |-> config._id] : i \in DOMAIN config.members }

Reconfig_empty(c) ==
    [name |-> "replSetReconfig", config |-> [c.config EXCEPT !.members = <<>>]]

\* lines 272-274: replSetReconfig with the config of the command it replaces
Reconfig(c) == [name |-> "replSetReconfig", config |-> c.config]

\* configure_repl_set: one iteration of the replSetInitiate/replSetReconfig loop
InitiateReplSet ==
    /\ pc = "rs_initiate"
    /\ \E r \in CommandResponses :
         /\ response' = Received(cmd, r)
         /\ log' = IF r.kind = "doc" /\ r.ok = 1
                   THEN Append(LogSend(cmd, conn), [ev |-> "ack", cmd |-> cmd])
                   ELSE LogSend(cmd, conn)
         /\ CASE r.kind = "err" ->
                   /\ TransportError
                   /\ UNCHANGED <<cmd, already_initialized, initiated>>
              [] r.kind = "malformed" ->
                   /\ Fail("BsonDecoder")
                   /\ UNCHANGED <<cmd, already_initialized, initiated>>
              [] r.kind = "doc" /\ r.ok = 1 ->
                   /\ pc' = "rs_status"
                   /\ initiated' = initiated \cup Configured(cmd.config)
                   /\ UNCHANGED <<result, cmd, already_initialized>>
              [] r.kind = "doc" /\ r.ok # 1 ->
                   /\ IF r.code_name = Some("AlreadyInitialized")
                      THEN /\ cmd' = IF already_initialized THEN cmd ELSE Reconfig(cmd)
                           /\ already_initialized' = TRUE
                      ELSE UNCHANGED <<cmd, already_initialized>>
                   /\ UNCHANGED <<pc, result, initiated>>
    /\ UNCHANGED <<launcherVars, credVars, nodes, routers, allocVars, shardedVars,
                   restartVars, rs, conn, client_options, procs, test_response>>

StatusCmd == [name |-> "replSetGetStatus"]

HasPrimary_secondary(members) ==
    \E i \in DOMAIN members : members[i].state_str \in {"PRIMARY", "SECONDARY"}

\* lines 296-301: some member reports state_str "PRIMARY"
HasPrimary(members) == \E i \in DOMAIN members : members[i].state_str = "PRIMARY"

\* configure_repl_set: one iteration of the replSetGetStatus loop; on PRIMARY the
\* function returns and its caller runs up to its next interaction
AwaitPrimary ==
    /\ pc = "rs_status"
    /\ \E r \in StatusResponses(Len(repl_set_addresses(rs.name))) :
         /\ response' = Received(StatusCmd, r)
         /\ CASE r.kind = "err" ->
                /\ log' = LogSend(StatusCmd, conn)
                /\ TransportError
                /\ UNCHANGED <<conn, cmd, client_options>>
           [] r.kind = "malformed" ->
                /\ log' = LogSend(StatusCmd, conn)
                /\ Fail("BsonDecoder")
                /\ UNCHANGED <<conn, cmd, client_options>>
           [] r.kind = "doc" /\ ~HasPrimary(r.members) ->
                /\ log' = LogSend(StatusCmd, conn)
                /\ UNCHANGED <<pc, result, conn, cmd, client_options>>
           [] r.kind = "doc" /\ HasPrimary(r.members) ->
                /\ log' = Append(LogSend(StatusCmd, conn),
                                 [ev |-> "status", set |-> rs.name, members |-> r.members])
                /\ UNCHANGED result
                /\ CASE rs.caller = "replset" ->
                          /\ client_options' =
                               [client_options EXCEPT
                                  !.hosts = ReplSetHosts(Len(topology.db_paths)),
                                  !.repl_set_name = Some(topology.set_name)]
                          /\ pc' = "post_topology"
                          /\ UNCHANGED <<conn, cmd>>
                     [] rs.caller = "config" ->
                          /\ pc' = IF mongos_ports = <<>> THEN "shards" ELSE "routers"
                          /\ UNCHANGED <<conn, cmd, client_options>>
                     [] rs.caller = "shard" ->
                          /\ conn' = RouterConn(mongos_ports[1])
                          /\ cmd' = AddReplsetShardCmd(rs.name)
                          /\ pc' = "add_shard"
                          /\ UNCHANGED client_options
    /\ UNCHANGED <<launcherVars, credVars, nodes, routers, allocVars, shardedVars,
                   restartVars, rs, already_initialized, procs, initiated, test_response>>

\* add_config_db up to configure_repl_set
AddConfigDb ==
    /\ pc = "config_db"
    /\ LET options == ConfigDbOptions(config_db_port, ConfigDbName, topology.config_db_path)
           args == MongodArgs(options, credential, tls, deprecated_tls_options,
                              extra_mongod_args)
       IN \E spawned \in BOOLEAN :
            IF spawned
            THEN /\ procs' = Append(procs, NewProc("mongod", args))
                 /\ log' = Append(log, SpawnEvent("mongod", args))
                 /\ nodes' = Append(nodes, [process |-> Len(procs) + 1,
                                             options |-> options])
                 /\ rs' = [name |-> ConfigDbName, config_server |-> TRUE,
                           shard_server |-> FALSE, db_paths |-> <<>>,
                           caller |-> "config", log |-> FALSE]
                 /\ pc' = "rs_configure"
                 /\ UNCHANGED result
            ELSE /\ SpawnFailure
                 /\ UNCHANGED <<log, nodes, rs>>
    /\ UNCHANGED <<launcherVars, credVars, routers, allocVars, shardedVars, restartVars,
                   conn, cmd, already_initialized, client_options, envVars>>

\* one iteration of the loop over mongos_ports
StartRouter ==
    /\ pc = "routers"
    /\ LET options == MongosOptions(mongos_ports[Len(routers) + 1], config_db_port,
                                    ConfigDbName)
           args == MongosArgs(options, credential, tls, deprecated_tls_options,
                              extra_mongod_args, monger_default_args)
       IN \E spawned \in BOOLEAN :
            IF spawned
            THEN /\ procs' = Append(procs, NewProc("mongos", args))
                 /\ log' = Append(log, SpawnEvent("mongos", args))
                 /\ routers' = Append(routers, [process |-> Len(procs) + 1,
                                                 options |-> options])
                 /\ pc' = IF Len(routers) + 1 = Len(mongos_ports)
                          THEN "shards" ELSE "routers"
                 /\ UNCHANGED result
            ELSE /\ SpawnFailure
                 /\ UNCHANGED <<log, routers>>
    /\ UNCHANGED <<launcherVars, credVars, nodes, allocVars, shardedVars, restartVars,
                   rsVars, client_options, envVars>>

\* a shard of one data directory: add_singleton_shard up to its loop
AddSingletonShard ==
    /\ pc = "shards"
    /\ shard_i <= Len(topology.shard_db_paths)
    /\ Len(topology.shard_db_paths[shard_i]) = 1
    /\ next_port' = PortAfter(next_port)
    /\ IF mongos_ports = <<>>
       THEN /\ Panic
            /\ UNCHANGED <<procs, log, shard_count, conn, cmd>>
       ELSE LET options == SingletonShardOptions(next_port,
                                                 topology.shard_db_paths[shard_i][1])
                args == MongodArgs(options, credential, tls, deprecated_tls_options,
                                   extra_mongod_args)
            IN \E spawned \in BOOLEAN :
                 IF spawned
                 THEN /\ procs' = Append(procs, NewProc("mongod", args))
                      /\ log' = Append(log, SpawnEvent("mongod", args))
                      /\ shard_count' = ShardCountAfter(shard_count)
                      /\ conn' = RouterConn(mongos_ports[1])
                      /\ cmd' = AddSingletonShardCmd(next_port, ShardName(shard_count))
                      /\ pc' = "add_shard"
                      /\ UNCHANGED result
                 ELSE /\ SpawnFailure
                      /\ UNCHANGED <<log, shard_count, conn, cmd>>
    /\ UNCHANGED <<launcherVars, credVars, nodes, routers, shardedVars, restartVars,
                   rs, already_initialized, client_options, envVars>>

\* a shard of any other number of data directories: add_replset_shard up to
\* start_repl_set
AddReplsetShard ==
    /\ pc = "shards"
    /\ shard_i <= Len(topology.shard_db_paths)
    /\ Len(topology.shard_db_paths[shard_i]) # 1
    /\ IF mongos_ports = <<>>
       THEN /\ Panic
            /\ UNCHANGED <<shard_count, rs>>
       ELSE /\ shard_count' = ShardCountAfter(shard_count)
            /\ rs' = [name |-> ShardName(shard_count), config_server |-> FALSE,
                      shard_server |-> TRUE,
                      db_paths |-> topology.shard_db_paths[shard_i],
                      caller |-> "shard", log |-> FALSE]
            /\ pc' = EnterReplSet(topology.shard_db_paths[shard_i])
            /\ UNCHANGED result
    /\ UNCHANGED <<launcherVars, credVars, nodes, routers, next_port, shardedVars,
                   restartVars, conn, cmd, already_initialized, client_options, procs,
                   envVars, log>>

\* one iteration of the addShard loop of add_singleton_shard / add_replset_shard
AddShard ==
    /\ pc = "add_shard"
    /\ \E r \in CommandResponses :
         /\ response' = Received(cmd, r)
         /\ log' = IF r.kind = "doc" /\ r.ok = 1
                   THEN Append(LogSend(cmd, conn), [ev |-> "ack", cmd |-> cmd])
                   ELSE LogSend(cmd, conn)
         /\ CASE r.kind = "err" -> TransportError /\ UNCHANGED shard_i
              [] r.kind = "malformed" -> Fail("BsonDecoder") /\ UNCHANGED shard_i
              [] r.kind = "doc" /\ r.ok = 1 ->
                   /\ shard_i' = shard_i + 1
                   /\ pc' = "shards"
                   /\ UNCHANGED result
              [] r.kind = "doc" /\ r.ok # 1 -> UNCHANGED <<pc, result, shard_i>>
    /\ UNCHANGED <<launcherVars, credVars, nodes, routers, allocVars, mongos_ports,
                   config_db_port, restartVars, rsVars, client_options, procs, initiated,
                   test_response>>

\* the loop over shard_db_paths is exhausted
ShardsDone ==
    /\ pc = "shards"
    /\ shard_i > Len(topology.shard_db_paths)
    /\ client_options' = [client_options EXCEPT !.hosts = ShardedHosts(mongos_ports)]
    /\ pc' = "post_topology"
    /\ UNCHANGED <<launcherVars, credVars, nodes, routers, allocVars, shardedVars,
                   restartVars, rsVars, result, procs, envVars, log>>

ClientConn_cred(options) ==
    [hosts |-> options.hosts,
     credential |-> Some([username |-> local_credential.val.username,
                          password |-> local_credential.val.password]),
     direct |-> FALSE]

\* the client built from client_options
ClientConn(options) ==
    [hosts |-> options.hosts, credential |-> options.credential, direct |-> FALSE]

AuthClientOptions_none(options, cred) == options

\* line 648: client_options.credential = Some(credential.into())
AuthClientOptions(options, cred) ==
    [options EXCEPT !.credential = Some([username |-> cred.username,
                                         password |-> cred.password])]

\* lines 633-650: createUser, run once; only a transport error is an Err
CreateUser ==
    /\ pc = "post_topology"
    /\ local_credential.some
    /\ credential' = local_credential
    /\ log' = Append(log, SendEvent(CreateUserCmd(local_credential.val),
                                    ClientConn(client_options)))
    /\ \E r \in CommandResponses :
         /\ response' = Received(CreateUserCmd(local_credential.val), r)
         /\ IF r.kind = "err"
            THEN /\ Fail("Mongo")
                 /\ UNCHANGED <<client_options, pre_auth_nodes, nodes>>
            ELSE /\ client_options' = AuthClientOptions(client_options, local_credential.val)
                 /\ pre_auth_nodes' = nodes
                 /\ nodes' = <<>>
                 /\ pc' = "restart_nodes"
                 /\ UNCHANGED result
    /\ UNCHANGED <<launcherVars, local_credential, routers, allocVars, shardedVars,
                   pre_auth_routers, restarting, rsVars, procs, initiated, test_response>>

SetProcState_unchanged(pid, state) == procs

SetProcState_all(pid, state) ==
    [p \in DOMAIN procs |-> [procs[p] EXCEPT !.state = state]]

\* lines 662-667, 687-692: the kill and the wait act on the one process whose id
\* is passed
SetProcState(pid, state) == [procs EXCEPT ![pid].state = state]

\* lines 662-665: the kill command for the next pre-auth node; the createUser
\* response is a temporary that no longer exists here
KillNode ==
    /\ pc = "restart_nodes"
    /\ pre_auth_nodes # <<>>
    /\ restarting' = Some(Head(pre_auth_nodes))
    /\ pre_auth_nodes' = Tail(pre_auth_nodes)
    /\ \E killed \in BOOLEAN :
         IF killed
         THEN /\ procs' = SetProcState(Head(pre_auth_nodes).process, "signalled")
              /\ log' = Append(log, [ev |-> "kill", pid |-> Head(pre_auth_nodes).process])
              /\ pc' = "wait_node"
              /\ UNCHANGED result
         ELSE /\ Fail("Io")
              /\ UNCHANGED <<procs, log>>
    /\ response' = NoResponse
    /\ UNCHANGED <<launcherVars, credVars, nodes, routers, allocVars, shardedVars,
                   pre_auth_routers, rsVars, client_options, initiated, test_response>>

\* line 667: pre_auth_node.process.wait()
WaitNode ==
    /\ pc = "wait_node"
    /\ \E waited \in BOOLEAN :
         IF waited
         THEN /\ procs' = SetProcState(restarting.val.process, "exited")
              /\ log' = Append(log, [ev |-> "exit", pid |-> restarting.val.process])
              /\ pc' = "respawn_node"
              /\ UNCHANGED result
         ELSE /\ Fail("Io")
              /\ UNCHANGED <<procs, log>>
    /\ UNCHANGED <<launcherVars, credVars, nodes, routers, allocVars, shardedVars,
                   restartVars, rsVars, client_options, envVars>>

RestartOptions_moved(pre_auth) == [pre_auth.options EXCEPT !.port = (@ + 1) % U16]

\* the spec handed to start_mongod / start_mongos for the respawn
RestartOptions(pre_auth) == pre_auth.options

\* lines 669-670: start_mongod with the pre-auth node's options
RespawnNode ==
    /\ pc = "respawn_node"
    /\ LET options == RestartOptions(restarting.val)
           args == MongodArgs(options, credential, tls, deprecated_tls_options,
                              extra_mongod_args)
       IN \E spawned \in BOOLEAN :
            IF spawned
            THEN /\ procs' = Append(procs, NewProc("mongod", args))
                 /\ log' = Append(log, SpawnEvent("mongod", args))
                 /\ nodes' = Append(nodes, [process |-> Len(procs) + 1,
                                             options |-> options])
                 /\ restarting' = None
                 /\ pc' = "restart_nodes"
                 /\ UNCHANGED result
            ELSE /\ SpawnFailure
                 /\ UNCHANGED <<log, nodes, restarting>>
    /\ UNCHANGED <<launcherVars, credVars, routers, allocVars, shardedVars,
                   pre_auth_nodes, pre_auth_routers, rsVars, client_options, envVars>>

\* line 673: the loop over pre_auth_nodes is exhausted
RestartNodesDone ==
    /\ pc = "restart_nodes"
    /\ pre_auth_nodes = <<>>
    /\ pre_auth_routers' = routers
    /\ routers' = <<>>
    /\ pc' = "restart_routers"
    /\ response' = NoResponse
    /\ UNCHANGED <<launcherVars, credVars, nodes, allocVars, shardedVars, pre_auth_nodes,
                   restarting, rsVars, client_options, result, procs, initiated,
                   test_response, log>>

\* lines 687-690: the kill command for the next pre-auth router
KillRouter ==
    /\ pc = "restart_routers"
    /\ pre_auth_routers # <<>>
    /\ restarting' = Some(Head(pre_auth_routers))
    /\ pre_auth_routers' = Tail(pre_auth_routers)
    /\ \E killed \in BOOLEAN :
         IF killed
         THEN /\ procs' = SetProcState(Head(pre_auth_routers).process, "signalled")
              /\ log' = Append(log, [ev |-> "kill",
                                     pid |-> Head(pre_auth_routers).process])
              /\ pc' = "wait_router"
              /\ UNCHANGED result
         ELSE /\ Fail("Io")
              /\ UNCHANGED <<procs, log>>
    /\ UNCHANGED <<launcherVars, credVars, nodes, routers, allocVars, shardedVars,
                   pre_auth_nodes, rsVars, client_options, envVars>>

\* line 692: pre_auth_router.process.wait()
WaitRouter ==
    /\ pc = "wait_router"
    /\ \E waited \in BOOLEAN :
         IF waited
         THEN /\ procs' = SetProcState(restarting.val.process, "exited")
              /\ log' = Append(log, [ev |-> "exit", pid |-> restarting.val.process])
              /\ pc' = "respawn_router"
              /\ UNCHANGED result
         ELSE /\ Fail("Io")
              /\ UNCHANGED <<procs, log>>
    /\ UNCHANGED <<launcherVars, credVars, nodes, routers, allocVars, shardedVars,
                   restartVars, rsVars, client_options, envVars>>

\* lines 694-695: start_mongos with the pre-auth router's options
RespawnRouter ==
    /\ pc = "respawn_router"
    /\ LET options == RestartOptions(restarting.val)
           args == MongosArgs(options, credential, tls, deprecated_tls_options,
                              extra_mongod_args, monger_default_args)
       IN \E spawned \in BOOLEAN :
            IF spawned
            THEN /\ procs' = Append(procs, NewProc("mongos", args))
                 /\ log' = Append(log, SpawnEvent("mongos", args))
                 /\ routers' = Append(routers, [process |-> Len(procs) + 1,
                                                 options |-> options])
                 /\ restarting' = None
                 /\ pc' = "restart_routers"
                 /\ UNCHANGED result
            ELSE /\ SpawnFailure
                 /\ UNCHANGED <<log, routers, restarting>>
    /\ UNCHANGED <<launcherVars, credVars, nodes, allocVars, shardedVars,
                   pre_auth_nodes, pre_auth_routers, rsVars, client_options, envVars>>

\* lines 699-711: the Cluster handle
Assemble ==
    /\ \/ pc = "post_topology" /\ ~local_credential.some
       \/ pc = "restart_routers" /\ pre_auth_routers = <<>>
    /\ result' = [kind |-> "ok",
                  cluster |-> [client_options |-> client_options, topology |-> topology,
                               tls |-> tls, auth |-> credential, nodes |-> nodes]]
    /\ pc' = "done"
    /\ UNCHANGED <<launcherVars, credVars, nodes, routers, allocVars, shardedVars,
                   restartVars, rsVars, client_options, procs, envVars, log>>

\* cluster/test.rs: replSetGetStatus through the returned handle; some member of
\* the host list answers with the set it was configured for
TestReplSetGetStatus ==
    /\ pc = "done"
    /\ topology.kind = "ReplicaSet"
    /\ test_response = None
    /\ \E h \in Range(result.cluster.client_options.hosts) :
         test_response' =
            Some(IF \E c \in initiated : c.host = AddressToString(h)
                 THEN [ok |-> 1,
                       set |-> (CHOOSE c \in initiated : c.host = AddressToString(h)).set]
                 ELSE [ok |-> 0])
    /\ UNCHANGED <<launcherVars, credVars, nodes, routers, allocVars, shardedVars,
                   restartVars, rsVars, client_options, pc, result, procs, initiated, response,
                   log>>

\* cluster/test.rs line 26: doc! { "shutdown": 1 }
ShutdownCmd == [name |-> "shutdown"]

Shutdown_propagate ==
    /\ pc = "done"
    /\ log' = Append(log, SendEvent(ShutdownCmd, ClientConn(result.cluster.client_options)))
    /\ \E r \in CommandResponses :
         /\ response' = Received(ShutdownCmd, r)
         /\ IF r.kind = "err"
            THEN Fail("Mongo")
            ELSE pc' = "closed" /\ UNCHANGED result
    /\ UNCHANGED <<launcherVars, credVars, nodes, routers, allocVars, shardedVars,
                   restartVars, rsVars, client_options, procs, initiated,
                   test_response>>

\* Cluster::shutdown, called by examples/start_sleep_shutdown.rs line 20: one
\* admin shutdown command through the handle's client; whatever run_command
\* yields is dropped and the call returns
Shutdown ==
    /\ pc = "done"
    /\ log' = Append(log, SendEvent(ShutdownCmd, ClientConn(result.cluster.client_options)))
    /\ \E r \in CommandResponses : response' = Received(ShutdownCmd, r)
    /\ pc' = "closed"
    /\ UNCHANGED <<launcherVars, credVars, nodes, routers, allocVars, shardedVars,
                   restartVars, rsVars, client_options, result, procs, initiated,
                   test_response>>

Next ==
    \/ Start
    \/ StartSingle
    \/ StartReplSetMember
    \/ ConfigureReplSet
    \/ InitiateReplSet
    \/ AwaitPrimary
    \/ AddConfigDb
    \/ StartRouter
    \/ AddSingletonShard
    \/ AddReplsetShard
    \/ AddShard
    \/ ShardsDone
    \/ CreateUser
    \/ KillNode
    \/ WaitNode
    \/ RespawnNode
    \/ RestartNodesDone
    \/ KillRouter
    \/ WaitRouter
    \/ RespawnRouter
    \/ Assemble
    \/ TestReplSetGetStatus
    \/ Shutdown

Spec == Init /\ [][Next]_vars

\* ------------------------------------------------------ launches that go through
\* the processes start and every command is answered at once with ok = 1 or
\* with a PRIMARY member
Prompt ==
    /\ pc' # "error"
    /\ (response' # response /\ response' # NoResponse) =>
         /\ response'.r.kind = "doc"
         /\ IF response'.cmd = "replSetGetStatus"
            THEN HasPrimary(response'.r.members)
            ELSE response'.r.ok = 1

WideInit == InitWith(WideTopologies, {None})

WideNext ==
    \/ Start /\ Prompt
    \/ StartSingle /\ Prompt
    \/ StartReplSetMember /\ Prompt
    \/ ConfigureReplSet /\ Prompt
    \/ InitiateReplSet /\ Prompt
    \/ AwaitPrimary /\ Prompt
    \/ AddConfigDb /\ Prompt
    \/ StartRouter /\ Prompt
    \/ AddSingletonShard /\ Prompt
    \/ AddReplsetShard /\ Prompt
    \/ AddShard /\ Prompt
    \/ ShardsDone /\ Prompt
    \/ Assemble /\ Prompt

WideSpec == WideInit /\ [][WideNext]_vars

\* ------------------------------------------------------ the allocators alone
\* the counters after any number of calls: at their start and at their end
PortCounters == (BasePort .. BasePort + AllocCalls) \cup (U16 - AllocCalls .. U16 - 1)

ShardCounters == (0 .. AllocCalls) \cup (U8 - AllocCalls .. U8 - 1)

AllocInit ==
    InitAt({[kind |-> "Sharded", num_mongos |-> AllocCalls,
             shard_db_paths |-> [i \in 1..AllocCalls |-> DbPaths(i, 2)],
             config_db_path |-> ConfigDbPath]},
           {None}, {None}, {FALSE}, {<<>>}, {None}, PortCounters, ShardCounters)

\* line 584, one call of the closure: self.next_port() into mongos_ports. At the
\* maximum `self.next_port + 1` panics in a build with overflow checks and wraps
\* in one without.
NextPort ==
    /\ pc = "start"
    /\ Len(mongos_ports) < AllocCalls
    /\ \/ /\ mongos_ports' = Append(mongos_ports, next_port)
          /\ next_port' = PortAfter(next_port)
          /\ UNCHANGED <<pc, result>>
       \/ /\ next_port + 1 = U16
          /\ Panic
          /\ UNCHANGED <<mongos_ports, next_port>>
    /\ UNCHANGED <<launcherVars, credVars, nodes, routers, shard_count, config_db_port,
                   shard_i, restartVars, rsVars, client_options, procs, envVars, log>>

\* line 496: the name of the next shard from self.next_shard_id(); `self.shard_count
\* + 1` panics or wraps in the same way
NextShardId ==
    /\ pc = "start"
    /\ shard_i <= AllocCalls
    /\ \/ /\ rs' = [rs EXCEPT !.name = ShardName(shard_count)]
          /\ shard_count' = ShardCountAfter(shard_count)
          /\ shard_i' = shard_i + 1
          /\ UNCHANGED <<pc, result>>
       \/ /\ shard_count + 1 = U8
          /\ Panic
          /\ UNCHANGED <<rs, shard_count, shard_i>>
    /\ UNCHANGED <<launcherVars, credVars, nodes, routers, next_port, mongos_ports,
                   config_db_port, restartVars, conn, cmd, already_initialized,
                   client_options, procs, envVars, log>>

AllocNext ==
    \/ NextPort
    \/ NextShardId

AllocSpec == AllocInit /\ [][AllocNext]_vars

\* ------------------------------------------------------ launches with TLS and
\* passthrough flags: launches that go through, with and without auth restart
ArgsInit ==
    InitAt(ArgsTopologies, {None, Some(TheCredential)},
           {None, Some(TheTls), Some(StrictTls)}, BOOLEAN, ExtraArgs, DefaultArgs,
           {BasePort}, {0})

ArgsNext ==
    \/ Start /\ Prompt
    \/ StartSingle /\ Prompt
    \/ StartReplSetMember /\ Prompt
    \/ ConfigureReplSet /\ Prompt
    \/ InitiateReplSet /\ Prompt
    \/ AwaitPrimary /\ Prompt
    \/ AddConfigDb /\ Prompt
    \/ StartRouter /\ Prompt
    \/ AddSingletonShard /\ Prompt
    \/ AddReplsetShard /\ Prompt
    \/ AddShard /\ Prompt
    \/ ShardsDone /\ Prompt
    \/ CreateUser /\ Prompt
    \/ KillNode /\ Prompt
    \/ WaitNode /\ Prompt
    \/ RespawnNode /\ Prompt
    \/ RestartNodesDone /\ Prompt
    \/ KillRouter /\ Prompt
    \/ WaitRouter /\ Prompt
    \/ RespawnRouter /\ Prompt
    \/ Assemble /\ Prompt

ArgsSpec == ArgsInit /\ [][ArgsNext]_vars

\* ====================================================== properties
\* ------------------------------------------------------ reading the history
Returned == pc = "done" /\ result.kind = "ok"

Requested == credential.some \/ local_credential.some

Events(Test(_)) == { i \in DOMAIN log : Test(log[i]) }

IsSpawn(e) == e.ev = "spawn"

IsNodeSpawn(e) == e.ev = "spawn" /\ e.kind = "mongod"

IsRouterSpawn(e) == e.ev = "spawn" /\ e.kind = "mongos"

IsSend(e, name) == e.ev = "send" /\ e.cmd.name = name

IsConfigSend(e) == IsSend(e, "replSetInitiate") \/ IsSend(e, "replSetReconfig")

IsAck(e, name) == e.ev = "ack" /\ e.cmd.name = name

IsConfigAck(e) == IsAck(e, "replSetInitiate") \/ IsAck(e, "replSetReconfig")

\* the argument following the first occurrence of a flag, if any
ArgAfter(args, flag) ==
    LET hits == { i \in DOMAIN args : args[i] = flag /\ i + 1 \in DOMAIN args }
    IN IF hits = {} THEN None
       ELSE Some(args[(CHOOSE j \in hits : \A k \in hits : j <= k) + 1])

HasArg(args, flag) == \E i \in DOMAIN args : args[i] = flag

\* the address a process listens on, read from its argument vector
ProcAddress(args) == "localhost:" \o ArgAfter(args, "--port").val

\* the position of the createUser command in the history (past its end if none)
CreateUserIdx ==
    LET sent == Events(LAMBDA e : IsSend(e, "createUser"))
    IN IF sent = {} THEN Len(log) + 1 ELSE CHOOSE i \in sent : \A j \in sent : i <= j

\* spawns of the topology-specific sequence, i.e. before createUser
FirstSpawns(Test(_)) ==
    LET c == CreateUserIdx
    IN { i \in DOMAIN log : i < c /\ Test(log[i]) }

HostStrings(hosts) == { AddressToString(hosts[i]) : i \in DOMAIN hosts }

NoDuplicates(s) == \A i, j \in DOMAIN s : s[i] = s[j] => i = j

ReturnedHosts == result.cluster.client_options.hosts

\* C1: the returned host list is exactly the single node's address (Single), the
\* addresses of the replica-set members (ReplicaSet) or the router addresses
\* (Sharded), and in the Sharded case holds no address of a data-bearing node.
C1_HostList ==
    Returned =>
      /\ NoDuplicates(ReturnedHosts)
      /\ topology.kind = "Single" =>
           /\ Cardinality(Events(IsNodeSpawn)) >= 1
           /\ HostStrings(ReturnedHosts) =
                { ProcAddress(log[i].args) : i \in Events(IsNodeSpawn) }
      /\ topology.kind = "ReplicaSet" =>
           HostStrings(ReturnedHosts) =
             { ProcAddress(log[i].args) :
                 i \in Events(LAMBDA e : IsNodeSpawn(e)
                                /\ ArgAfter(e.args, "--replSet") = Some(topology.set_name)) }
      /\ topology.kind = "Sharded" =>
           /\ HostStrings(ReturnedHosts) =
                { ProcAddress(log[i].args) : i \in Events(IsRouterSpawn) }
           /\ \A i \in Events(IsNodeSpawn) :
                ProcAddress(log[i].args) \notin HostStrings(ReturnedHosts)

C1_Witness ==
    /\ Returned
    /\ topology.kind = "Sharded"
    /\ Len(ReturnedHosts) = 2
    /\ Cardinality(Events(IsNodeSpawn)) >= 3

\* C2: a Single launch without auth spawns exactly one node process, bound to the
\* base port, without replica-set name and without config/shard role, and the
\* returned host list has length 1.
C2_Single ==
    (topology.kind = "Single" /\ ~Requested) =>
      /\ Cardinality(Events(IsSpawn)) <= 1
      /\ \A i \in Events(IsSpawn) :
           /\ log[i].kind = "mongod"
           /\ ArgAfter(log[i].args, "--port") = Some(ToString(BasePort))
           /\ ~HasArg(log[i].args, "--replSet")
           /\ ~HasArg(log[i].args, "--configsvr")
           /\ ~HasArg(log[i].args, "--shardsvr")
      /\ Returned =>
           /\ Cardinality(Events(IsSpawn)) = 1
           /\ Len(procs) = 1
           /\ Len(ReturnedHosts) = 1

C2_Witness == Returned /\ topology.kind = "Single" /\ ~Requested /\ Len(procs) = 1

Running == { p \in DOMAIN procs : procs[p].state = "running" }

MemberHosts(config) == { config.members[i].host : i \in DOMAIN config.members }

\* C3: a ReplicaSet launch of n >= 1 data directories spawns exactly n node
\* processes, on the n consecutive ports from the base port (each respawned on
\* its own port when auth is requested), every replSetInitiate/replSetReconfig
\* lists exactly those n ports, and the launch returns only after a
\* replSetGetStatus response with a PRIMARY member.
C3_ReplicaSet ==
    (topology.kind = "ReplicaSet" /\ Len(topology.db_paths) >= 1) =>
      LET n == Len(topology.db_paths)
          expected == { "localhost:" \o ToString(BasePort + k) : k \in 0..(n - 1) }
          first == FirstSpawns(IsSpawn)
      IN /\ Cardinality(first) <= n
         /\ \A i \in Events(IsSpawn) :
              /\ log[i].kind = "mongod"
              /\ ProcAddress(log[i].args) \in expected
         /\ \A i \in first :
              ProcAddress(log[i].args) =
                "localhost:" \o ToString(BasePort + Cardinality({ j \in first : j < i }))
         /\ \A i \in Events(IsConfigSend) :
              /\ Cardinality(first) = n
              /\ Len(log[i].cmd.config.members) = n
              /\ MemberHosts(log[i].cmd.config) = expected
         /\ Returned =>
              /\ Cardinality(first) = n
              /\ Cardinality(Running) = n
              /\ { ProcAddress(procs[p].args) : p \in Running } = expected
              /\ \E i \in DOMAIN log :
                   /\ log[i].ev = "status"
                   /\ \E m \in DOMAIN log[i].members :
                        log[i].members[m].state_str = "PRIMARY"

C3_Witness ==
    /\ Returned
    /\ topology.kind = "ReplicaSet"
    /\ Len(topology.db_paths) = 3
    /\ Cardinality(Events(IsConfigSend)) >= 1

\* C4: when a ReplicaSet launch returns, a replSetInitiate or replSetReconfig
\* whose config _id is the configured set name has been acknowledged, and a
\* replSetGetStatus through the returned handle answers ok = 1 with that set name.
C4_Initiated ==
    (Returned /\ topology.kind = "ReplicaSet") =>
      /\ \E i \in Events(IsConfigAck) : log[i].cmd.config._id = topology.set_name
      /\ result.cluster.client_options.repl_set_name = Some(topology.set_name)
      /\ test_response.some =>
           test_response.val = [ok |-> 1, set |-> topology.set_name]

C4_Witness ==
    /\ Returned
    /\ topology.kind = "ReplicaSet"
    /\ test_response.some
    /\ \E i \in Events(LAMBDA e : IsAck(e, "replSetReconfig")) : TRUE

\* ------------------------------------------------------ shards in the history
RECURSIVE SeqOfSet(_)
SeqOfSet(S) ==
    IF S = {} THEN <<>>
    ELSE LET m == CHOOSE x \in S : \A y \in S : x <= y
         IN <<m>> \o SeqOfSet(S \ {m})

Shards == IF topology.kind = "Sharded" THEN DOMAIN topology.shard_db_paths ELSE {}

ShardSize(k) == Len(topology.shard_db_paths[k])

\* the first spawns of the nodes of one group of data directories
SpawnsOfDirs(dirs) ==
    { i \in FirstSpawns(IsNodeSpawn) :
        ArgAfter(log[i].args, "--dbpath") \in { Some(dirs[d]) : d \in DOMAIN dirs } }

ShardMembers(k) == SpawnsOfDirs(topology.shard_db_paths[k])

SetNameOf(i) == ArgAfter(log[i].args, "--replSet")

SpawnAddresses(S) == { ProcAddress(log[i].args) : i \in S }

\* "<setName>/<host:port>,..." for the members of shard k, in spawn order
ExpectedReplsetArg(k) ==
    LET idx == SeqOfSet(ShardMembers(k))
    IN SetNameOf(idx[1]).val \o "/"
       \o Join([j \in DOMAIN idx |-> ProcAddress(log[idx[j]].args)], ",")

\* "<host>:<port>" for the one node of shard k
ExpectedSingletonArg(k) == ProcAddress(log[CHOOSE i \in ShardMembers(k) : TRUE].args)

RouterAddresses == SpawnAddresses(Events(IsRouterSpawn))

PrimaryObserved(name, before) ==
    \E s \in DOMAIN log :
      /\ s < before
      /\ log[s].ev = "status"
      /\ log[s].set = name
      /\ \E m \in DOMAIN log[s].members : log[s].members[m].state_str = "PRIMARY"

\* C5: a successful Sharded launch whose N shards all have >= 2 data directories
\* has an acknowledged addShard "<setName>/<host:port>,..." per shard listing
\* exactly that shard's members, N distinct addShard commands in all, and a
\* returned host list equal to the router addresses with no shard-member address.
C5_ReplsetShards ==
    (Returned /\ topology.kind = "Sharded"
       /\ \A k \in Shards : ShardSize(k) >= 2) =>
      /\ \A k \in Shards :
           /\ Cardinality(ShardMembers(k)) = ShardSize(k)
           /\ \E i \in Events(LAMBDA e : IsAck(e, "addShard")) :
                log[i].cmd.addShard = ExpectedReplsetArg(k)
      /\ Cardinality({ log[i].cmd : i \in Events(LAMBDA e : IsSend(e, "addShard")) })
           = Cardinality(Shards)
      /\ Cardinality(Events(LAMBDA e : IsSend(e, "addShard"))) = Cardinality(Shards)
      /\ HostStrings(ReturnedHosts) = RouterAddresses
      /\ \A k \in Shards :
           SpawnAddresses(ShardMembers(k)) \cap HostStrings(ReturnedHosts) = {}

C5_Witness ==
    /\ Returned
    /\ topology.kind = "Sharded"
    /\ Cardinality(Shards) = 2
    /\ \A k \in Shards : ShardSize(k) >= 2

\* C6: in a Sharded launch a shard of one data directory is started as a
\* standalone shard server (no --replSet, never a member of an initiated config)
\* and registered with addShard "<host>:<port>"; a shard of two or more goes
\* through the whole replica-set bootstrap (all members spawned, initiate
\* acknowledged, PRIMARY observed) before its addShard is sent.
C6_MixedShards ==
    \A k \in Shards :
      LET M == ShardMembers(k)
          addrs == SpawnAddresses(M)
          names == { SetNameOf(i) : i \in M }
          sends == Events(LAMBDA e : IsSend(e, "addShard"))
          acks == Events(LAMBDA e : IsAck(e, "addShard"))
          expected == ExpectedReplsetArg(k)
      IN /\ ShardSize(k) = 1 =>
              /\ \A i \in M :
                   /\ HasArg(log[i].args, "--shardsvr")
                   /\ ~HasArg(log[i].args, "--replSet")
              /\ \A c \in Events(IsConfigSend) :
                   /\ addrs \cap MemberHosts(log[c].cmd.config) = {}
                   /\ addrs \cap HostStrings(log[c].conn.hosts) = {}
              /\ Returned =>
                   /\ Cardinality(M) = 1
                   /\ \E a \in acks : log[a].cmd.addShard = ExpectedSingletonArg(k)
         /\ ShardSize(k) >= 2 =>
              /\ \A i \in M : HasArg(log[i].args, "--shardsvr")
              /\ \A nm \in names : nm.some
              /\ \A j \in sends :
                   Some(log[j].cmd.shard) \in names =>
                     /\ Cardinality({ i \in M : i < j }) = ShardSize(k)
                     /\ log[j].cmd.addShard = expected
                     /\ \E a \in Events(IsConfigAck) :
                          /\ a < j
                          /\ \A i \in M : i < a
                          /\ names = {Some(log[a].cmd.config._id)}
                          /\ MemberHosts(log[a].cmd.config) = addrs
                          /\ PrimaryObserved(log[a].cmd.config._id, j)
                          /\ ~PrimaryObserved(log[a].cmd.config._id, a)
              /\ Returned => \E a \in acks : log[a].cmd.addShard = expected

C6_Witness ==
    /\ Returned
    /\ topology.kind = "Sharded"
    /\ \E k1, k2 \in Shards : ShardSize(k1) = 1 /\ ShardSize(k2) = 2

\* the data directories started together with directory d: the replica set's,
\* the config server's, or those of d's shard
DirGroup(d) ==
    IF topology.kind = "ReplicaSet" THEN Range(topology.db_paths)
    ELSE IF topology.kind = "Sharded"
    THEN (IF d = topology.config_db_path THEN {d}
          ELSE UNION { Range(topology.shard_db_paths[k]) :
                         k \in { x \in Shards : d \in Range(topology.shard_db_paths[x]) } })
    ELSE {}

\* C7: (a) in a Sharded launch the config server is spawned and its replica set
\* configured before any router is spawned, and every router is spawned before
\* any shard node; (b) all members of a replica set are spawned before the first
\* replSetInitiate for that set.  A node or router is its port: the respawns of
\* the auth restart are not new members.
C7_Ordering ==
    LET nodes1 == FirstSpawns(IsNodeSpawn)
        routers1 == FirstSpawns(IsRouterSpawn)
        configs == { i \in nodes1 : HasArg(log[i].args, "--configsvr") }
        shardNodes == { i \in nodes1 : HasArg(log[i].args, "--shardsvr") }
        sends == Events(IsConfigSend)
    IN /\ topology.kind = "Sharded" =>
            /\ \A r \in routers1 :
                 \E c \in configs :
                   /\ c < r
                   /\ \E a \in Events(IsConfigAck) :
                        /\ c < a /\ a < r
                        /\ MemberHosts(log[a].cmd.config) = {ProcAddress(log[c].args)}
                        /\ log[a].cmd.config._id = SetNameOf(c).val
                        /\ PrimaryObserved(log[a].cmd.config._id, r)
            /\ \A s \in shardNodes :
                 /\ \E c \in configs : c < s
                 /\ \A r \in routers1 : r < s
                 /\ Cardinality(routers1) = topology.num_mongos
                 /\ routers1 # {}
       /\ \A j \in sends :
            LET members == { i \in nodes1 : SetNameOf(i) = Some(log[j].cmd.config._id) }
            IN /\ members # {}
               /\ \A i \in members :
                    /\ i < j
                    /\ \A d \in DirGroup(ArgAfter(log[i].args, "--dbpath").val) :
                         \E i2 \in members : ArgAfter(log[i2].args, "--dbpath") = Some(d)
               /\ MemberHosts(log[j].cmd.config) = SpawnAddresses(members)

C7_Witness ==
    /\ Returned
    /\ Requested
    /\ topology.kind = "Sharded"
    /\ topology.num_mongos = 2
    /\ \E k1, k2 \in Shards : ShardSize(k1) = 1 /\ ShardSize(k2) = 2

\* C8: addShard for a shard is first sent only after that shard's node
\* process(es) have been spawned and, for a replica-set shard, after a PRIMARY of
\* its set has been observed; and it is sent to a router.
C8_AddShardAfterReady ==
    \A j \in Events(LAMBDA e : IsSend(e, "addShard")) :
      /\ Len(log[j].conn.hosts) = 1
      /\ \E r \in FirstSpawns(IsRouterSpawn) :
           r < j /\ ProcAddress(log[r].args) = AddressToString(log[j].conn.hosts[1])
      /\ \E k \in Shards :
           LET M == ShardMembers(k)
           IN /\ Cardinality(M) = ShardSize(k)
              /\ \A i \in M : i < j
              /\ ShardSize(k) = 1 => log[j].cmd.addShard = ExpectedSingletonArg(k)
              /\ ShardSize(k) # 1 =>
                   /\ log[j].cmd.addShard = ExpectedReplsetArg(k)
                   /\ \A i \in M : PrimaryObserved(SetNameOf(i).val, j)

C8_Witness ==
    /\ topology.kind = "Sharded"
    /\ Cardinality(Events(LAMBDA e : IsAck(e, "addShard"))) = 2
    /\ \E k1, k2 \in Shards : ShardSize(k1) = 1 /\ ShardSize(k2) = 2

\* the topology-specific sequence is complete before position c of the history
TopologyComplete(c) ==
    LET before(Test(_)) == { i \in DOMAIN log : i < c /\ Test(log[i]) }
    IN CASE topology.kind = "Single" -> Cardinality(before(IsNodeSpawn)) = 1
         [] topology.kind = "ReplicaSet" ->
              /\ Cardinality(before(IsNodeSpawn)) = Len(topology.db_paths)
              /\ PrimaryObserved(topology.set_name, c)
         [] topology.kind = "Sharded" ->
              /\ Cardinality(before(IsRouterSpawn)) = topology.num_mongos
              /\ \E i \in before(IsNodeSpawn) :
                   /\ HasArg(log[i].args, "--configsvr")
                   /\ PrimaryObserved(SetNameOf(i).val, c)
              /\ Cardinality(before(LAMBDA e : IsAck(e, "addShard")))
                   = Len(topology.shard_db_paths)

\* C9: with auth requested, createUser (configured username and password, role
\* root) is sent exactly once per launch, over a connection without credential,
\* after the topology-specific sequence has completed and before any node or
\* router is terminated for restart.
C9_CreateUserOnce ==
    LET sent == Events(LAMBDA e : IsSend(e, "createUser"))
    IN /\ Cardinality(sent) <= 1
       /\ \A c \in sent :
            /\ Requested
            /\ log[c].cmd = [name |-> "createUser", createUser |-> TheCredential.username,
                             pwd |-> TheCredential.password, roles |-> <<"root">>]
            /\ log[c].conn.credential = None
            /\ log[c].conn.hosts = client_options.hosts
            /\ TopologyComplete(c)
            /\ \A i \in DOMAIN log :
                 /\ i < c => log[i].ev \notin {"kill", "exit"}
                 /\ (i > c /\ ~IsSend(log[i], "shutdown")) =>
                      /\ log[i].ev \in {"kill", "exit", "spawn"}
                      /\ log[i].ev = "spawn" =>
                           \E i0 \in DOMAIN log :
                             /\ i0 < c
                             /\ log[i0].ev = "spawn"
                             /\ log[i0].kind = log[i].kind
                             /\ ProcAddress(log[i0].args) = ProcAddress(log[i].args)
       /\ (Requested /\ (Returned \/ Events(LAMBDA e : e.ev = "kill") # {}
                         \/ pc \in {"restart_nodes", "restart_routers"})) =>
            Cardinality(sent) = 1

C9_Witness ==
    /\ Returned
    /\ Requested
    /\ topology.kind = "Sharded"
    /\ Cardinality(Events(LAMBDA e : e.ev = "kill")) >= 3
    /\ Cardinality(Events(LAMBDA e : IsSend(e, "createUser"))) = 1

AuthFlags(e) ==
    /\ ArgAfter(e.args, "--keyFile") = Some(TheCredential.key_file)
    /\ e.kind = "mongod" => HasArg(e.args, "--auth")

\* C10: with auth requested and a successful launch, every node process and
\* every router process spawned before createUser (standalone single-directory
\* shards included) is terminated and respawned exactly once, and the respawned
\* process carries the auth flags.
C10_AllRestarted ==
    (Returned /\ Requested) =>
      \A i \in FirstSpawns(IsSpawn) :
        /\ procs[log[i].pid].state = "exited"
        /\ Cardinality(Events(LAMBDA e : e.ev = "kill" /\ e.pid = log[i].pid)) = 1
        /\ LET again == { j \in Events(IsSpawn) :
                            /\ j > i
                            /\ log[j].kind = log[i].kind
                            /\ ProcAddress(log[j].args) = ProcAddress(log[i].args) }
           IN /\ Cardinality(again) = 1
              /\ \A j \in again : AuthFlags(log[j]) /\ procs[log[j].pid].state = "running"

\* C11: the connection parameters of the returned handle hold a credential (the
\* requested user name and password) exactly when a Credential was requested.
C11_HandleCredential ==
    Returned =>
      /\ result.cluster.client_options.credential.some <=> Requested
      /\ Requested =>
           result.cluster.client_options.credential =
             Some([username |-> TheCredential.username,
                   password |-> TheCredential.password])

C11_Witness ==
    /\ Returned
    /\ Requested
    /\ result.cluster.client_options.credential.some
    /\ Cardinality(Events(LAMBDA e : IsSend(e, "createUser"))) = 1

TopologyCommands == {"replSetInitiate", "replSetReconfig", "replSetGetStatus", "addShard"}

\* C12: with a Credential requested, every process spawned before createUser has
\* neither --auth nor --keyFile, every command before createUser is one of
\* replSetInitiate, replSetReconfig, replSetGetStatus, addShard and is sent
\* without credential, and createUser, kill and respawn happen only once the
\* topology-specific sequence is complete.
C12_TopologyWithoutAuth ==
    Requested =>
      LET c == CreateUserIdx
      IN /\ \A i \in DOMAIN log :
              i < c =>
                /\ log[i].ev \in {"spawn", "send", "ack", "status"}
                /\ log[i].ev = "spawn" =>
                     /\ ~HasArg(log[i].args, "--auth")
                     /\ ~HasArg(log[i].args, "--keyFile")
                /\ log[i].ev = "send" =>
                     /\ log[i].cmd.name \in TopologyCommands
                     /\ log[i].conn.credential = None
         /\ c <= Len(log) => TopologyComplete(c)
         /\ pc \in {"single", "rs_spawn", "rs_configure", "rs_initiate", "rs_status",
                    "config_db", "routers", "shards", "add_shard", "post_topology"} =>
              /\ credential = None
              /\ c > Len(log)

C12_Witness ==
    /\ Returned
    /\ Requested
    /\ topology.kind = "Sharded"
    /\ Cardinality(Events(LAMBDA e : IsAck(e, "addShard"))) >= 1
    /\ Cardinality(Events(LAMBDA e : IsSend(e, "replSetGetStatus"))) >= 2

\* C13: without a Credential no spawned process has --auth or --keyFile,
\* createUser is never sent, no process is killed or exits, and no address is
\* spawned twice.
C13_NoCredential ==
    ~Requested =>
      /\ \A i \in Events(IsSpawn) :
           /\ ~HasArg(log[i].args, "--auth")
           /\ ~HasArg(log[i].args, "--keyFile")
      /\ \A i \in DOMAIN log :
           /\ log[i].ev \notin {"kill", "exit"}
           /\ log[i].ev = "send" => log[i].cmd.name # "createUser"
      /\ \A p \in DOMAIN procs : procs[p].state = "running"
      /\ Cardinality(SpawnAddresses(Events(IsSpawn))) = Cardinality(Events(IsSpawn))

C13_Witness ==
    /\ Returned
    /\ ~Requested
    /\ topology.kind = "Sharded"
    /\ Cardinality(Events(IsRouterSpawn)) = 2
    /\ Cardinality(Events(IsNodeSpawn)) >= 3

\* ------------------------------------------------------ the registries
IsNodeRecord(rec) == "db_path" \in DOMAIN rec.options

\* the specs of the node registry, with those taken out of it for the restart
NodeSpecs ==
    [i \in DOMAIN nodes |-> nodes[i].options]
    \o (IF restarting.some /\ IsNodeRecord(restarting.val)
        THEN <<restarting.val.options>> ELSE <<>>)
    \o [i \in DOMAIN pre_auth_nodes |-> pre_auth_nodes[i].options]

RouterSpecs ==
    [i \in DOMAIN routers |-> routers[i].options]
    \o (IF restarting.some /\ ~IsNodeRecord(restarting.val)
        THEN <<restarting.val.options>> ELSE <<>>)
    \o [i \in DOMAIN pre_auth_routers |-> pre_auth_routers[i].options]

RestartPcs == {"restart_nodes", "wait_node", "respawn_node",
               "restart_routers", "wait_router", "respawn_router"}

\* C14: no step of the auth bootstrap (createUser, kill, wait, respawn, return)
\* changes the sequence of node specs or of router specs: records taken out for
\* the restart come back in the same order with the same port, data directory,
\* role flags, set name, config port and config name; at return both registries
\* hold exactly those specs.
C14_RestartKeepsSpecs ==
    [][(pc \in RestartPcs \cup {"post_topology"}) =>
         /\ NodeSpecs' = NodeSpecs
         /\ RouterSpecs' = RouterSpecs
         /\ pc' = "done" =>
              /\ [i \in DOMAIN nodes' |-> nodes'[i].options] = NodeSpecs
              /\ [i \in DOMAIN routers' |-> routers'[i].options] = RouterSpecs]_vars

C14_Witness ==
    /\ Returned
    /\ Requested
    /\ Len(nodes) >= 3
    /\ Len(routers) = 2
    /\ \A i \in DOMAIN nodes : procs[nodes[i].process].state = "running"
    /\ Cardinality(Events(LAMBDA e : e.ev = "exit")) >= 5

\* ------------------------------------------------------ ports and roles
Role(e) ==
    IF e.kind = "mongos" THEN "router"
    ELSE IF HasArg(e.args, "--configsvr") THEN "config server"
    ELSE IF HasArg(e.args, "--shardsvr") THEN "shard member"
    ELSE IF HasArg(e.args, "--replSet") THEN "replica member"
    ELSE "single"

\* every port in use or set aside so far, with the role it was given
PortRoles ==
    { <<ArgAfter(log[i].args, "--port").val, Role(log[i])>> : i \in Events(IsSpawn) }
    \cup { <<ToString(mongos_ports[i]), "router">> : i \in DOMAIN mongos_ports }
    \cup (IF topology.kind = "Sharded" /\ pc # "start"
          THEN {<<ToString(config_db_port), "config server">>} ELSE {})

\* C15: in every state every port returned by next_port so far (Single makes no
\* call) is below the counter, so the next one returned exceeds them all; the
\* ports set aside for routers increase and lie below the config server's; no
\* port appears with two roles.  Over every step next_port does not decrease,
\* and from createUser on neither the counter nor the port-to-role assignment
\* changes.
C15_PortsIncrease ==
    /\ [](LET returned == IF topology.kind = "Single" THEN {}
                          ELSE { pr[1] : pr \in PortRoles }
          IN /\ returned \subseteq { ToString(p) : p \in BasePort..(next_port - 1) }
             /\ \A i, j \in DOMAIN mongos_ports :
                  i < j => mongos_ports[i] < mongos_ports[j]
             /\ \A i \in DOMAIN mongos_ports : mongos_ports[i] < config_db_port
             /\ \A a, b \in PortRoles : a[1] = b[1] => a[2] = b[2])
    /\ [][/\ next_port' >= next_port
          /\ pc \in RestartPcs \cup {"post_topology"} =>
               /\ next_port' = next_port
               /\ PortRoles' = PortRoles]_vars

C15_Witness ==
    /\ Returned
    /\ Requested
    /\ topology.kind = "Sharded"
    /\ next_port >= BasePort + 6
    /\ Cardinality({ pr[2] : pr \in PortRoles }) = 3

\* the member list that the node registry gives for set S
ExpectedMembers(S) ==
    LET idx == SeqOfSet({ i \in DOMAIN NodeSpecs : NodeSpecs[i].repl_set_name = Some(S) })
    IN [k \in DOMAIN idx |->
          [_id |-> k - 1, host |-> "localhost:" \o ToString(NodeSpecs[idx[k]].port)]]

\* C17: the member list of every replSetInitiate/replSetReconfig sent equals the
\* registry records with that set name, in registry order, with _id 0..n-1 and
\* host "localhost:<port>"; no process started under another set name or under
\* none is listed.
C17_MemberLists ==
    \A j \in Events(IsConfigSend) :
      LET config == log[j].cmd.config
      IN /\ config.members # <<>>
         /\ config.members = ExpectedMembers(config._id)
         /\ \A i \in Events(IsNodeSpawn) :
              SetNameOf(i) # Some(config._id) =>
                ProcAddress(log[i].args) \notin MemberHosts(config)

C17_Witness ==
    /\ Returned
    /\ topology.kind = "Sharded"
    /\ Len(NodeSpecs) >= 3
    /\ \E j \in Events(IsConfigSend) : Len(log[j].cmd.config.members) = 2
    /\ \E i \in Events(IsNodeSpawn) : ~SetNameOf(i).some

AlreadyInitializedDoc == [kind |-> "doc", ok |-> 0, code_name |-> Some("AlreadyInitialized")]

OkDoc == [kind |-> "doc", ok |-> 1, code_name |-> None]

\* C18: in the replSetInitiate/replSetReconfig loop an AlreadyInitialized answer
\* leaves replSetReconfig with the unchanged config as the command in flight and
\* no error result; replSetReconfig is never replaced again; and ok = 1 for
\* replSetReconfig ends the loop without error.
C18_AlreadyInitialized ==
    [][pc = "rs_initiate" =>
         /\ response'.r = AlreadyInitializedDoc =>
              /\ cmd' = [name |-> "replSetReconfig", config |-> cmd.config]
              /\ already_initialized'
              /\ pc' = "rs_initiate"
              /\ result' = result
         /\ (cmd.name = "replSetReconfig" /\ pc' = "rs_initiate") => cmd' = cmd
         /\ pc' = "rs_initiate" => cmd'.config = cmd.config
         /\ (cmd.name = "replSetReconfig" /\ response'.r = OkDoc) =>
              /\ pc' = "rs_status"
              /\ result'.kind = "running"
              /\ log'[Len(log')] = [ev |-> "ack", cmd |-> cmd]]_vars

C18_Witness ==
    /\ Returned
    /\ topology.kind = "Sharded"
    /\ Cardinality(Events(LAMBDA e : IsAck(e, "replSetReconfig"))) >= 2
    /\ Cardinality(Events(LAMBDA e : IsAck(e, "replSetInitiate"))) >= 1

\* C19: once replSetInitiate/replSetReconfig has been answered by a well-formed
\* document with ok # 1 and a code name other than AlreadyInitialized (or none),
\* the launch has failed with a ReplicaSetConfigError carrying that response.
C19_OtherCodeFatal ==
    (/\ response.cmd \in {"replSetInitiate", "replSetReconfig"}
     /\ response.r.kind = "doc"
     /\ response.r.ok # 1
     /\ response.r.code_name # Some("AlreadyInitialized")) =>
      /\ pc = "error"
      /\ result = [kind |-> "err", error |-> "ReplicaSetConfigError",
                   response |-> response.r]

\* C20: once addShard has been answered by a well-formed document with ok # 1,
\* the launch has failed with an AddShardError carrying that response.
C20_AddShardFatal ==
    (/\ response.cmd = "addShard"
     /\ response.r.kind = "doc"
     /\ response.r.ok # 1) =>
      /\ pc = "error"
      /\ result = [kind |-> "err", error |-> "AddShardError", response |-> response.r]

\* the number of processes a launch of the topology starts
ExpectedProcesses ==
    CASE topology.kind = "Single" -> 1
      [] topology.kind = "ReplicaSet" -> Len(topology.db_paths)
      [] topology.kind = "Sharded" ->
           1 + topology.num_mongos
           + Sum([k \in DOMAIN topology.shard_db_paths |-> ShardSize(k)])

\* C16: within one launch the ports of the node and router processes started
\* (one per spec; the hard-coded port of Single included) are pairwise
\* different, as are the ports of the specs in the two registries, no node runs
\* on a port set aside for a router, and a finished launch has started one
\* process per spec of the topology.
C16_DistinctPorts ==
    LET first == FirstSpawns(IsSpawn)
        ports == { ArgAfter(log[i].args, "--port") : i \in first }
        registry == [i \in DOMAIN NodeSpecs |-> NodeSpecs[i].port]
                    \o [i \in DOMAIN RouterSpecs |-> RouterSpecs[i].port]
    IN /\ Cardinality(ports) = Cardinality(first)
       /\ \A pt \in ports : pt.some
       /\ NoDuplicates(registry)
       /\ \A i \in Events(IsNodeSpawn) :
            \A r \in DOMAIN mongos_ports :
              ArgAfter(log[i].args, "--port") # Some(ToString(mongos_ports[r]))
       /\ Returned => Cardinality(first) = ExpectedProcesses

C16_Witness ==
    /\ Returned
    /\ topology.kind = "Sharded"
    /\ topology.num_mongos = 2
    /\ Len(topology.shard_db_paths) = 5
    /\ \E k1, k2 \in Shards : ShardSize(k1) = 1 /\ ShardSize(k2) = 2
    /\ Cardinality(Events(IsSpawn)) >= 8

\* ------------------------------------------------------ the retry loops
RetryPcs == {"rs_initiate", "rs_status", "add_shard"}

\* the command a loop sends in its current iteration
LoopCmd == IF pc = "rs_status" THEN StatusCmd ELSE cmd

\* C21: in each of the three retry loops (replSetInitiate/replSetReconfig,
\* replSetGetStatus, addShard) a transport failure of the command leaves the
\* launch in the same loop without a result, leaves the command and its
\* connection as they were, and the command sent last is still that command; the
\* step carries no count of failures, so it repeats any number of times.
C21_TransportRetry ==
    [][(pc \in RetryPcs /\ response'.cmd # "none" /\ response'.r.kind = "err") =>
         /\ pc' = pc
         /\ result' = result
         /\ result'.kind = "running"
         /\ cmd' = cmd
         /\ conn' = conn
         /\ log' # <<>>
         /\ log'[Len(log')] = SendEvent(LoopCmd, conn)]_vars

C21_Witness ==
    /\ pc = "add_shard"
    /\ response = [cmd |-> "addShard", r |-> [kind |-> "err"]]
    /\ Cardinality(Events(LAMBDA e : IsAck(e, "addShard"))) >= 1

\* ------------------------------------------------------ waiting for a primary
\* the port of the first node of the registry that carries the set name
RegistryFirst(name) ==
    LET hits == { i \in DOMAIN nodes : nodes[i].options.repl_set_name = Some(name) }
    IN nodes[CHOOSE i \in hits : \A j \in hits : i <= j].options.port

LastConfigSend ==
    LET sent == Events(IsConfigSend)
    IN log[CHOOSE i \in sent : \A j \in sent : j <= i]

NoPrimaryDoc(r) ==
    /\ r.kind = "doc"
    /\ \A i \in DOMAIN r.members : r.members[i].state_str # "PRIMARY"

\* C22: while configure_repl_set polls, its connection is the direct one-host
\* connection to the first registry member of the set, the one the initiate
\* command of this set went over; the polling ends without an error only on a
\* replSetGetStatus document with a PRIMARY member; a transport error and a
\* document without PRIMARY keep the launch polling over the same connection.
C22_AwaitPrimary ==
    /\ [](pc = "rs_status" =>
            /\ conn.hosts = <<localhost_address(RegistryFirst(rs.name))>>
            /\ conn.direct
            /\ LastConfigSend.conn = conn
            /\ LastConfigSend.cmd.config._id = rs.name)
    /\ [][pc = "rs_status" =>
            /\ pc' \notin {"rs_status", "error"} =>
                 /\ response'.cmd = "replSetGetStatus"
                 /\ response'.r.kind = "doc"
                 /\ ~NoPrimaryDoc(response'.r)
                 /\ result' = result
            /\ (response'.r.kind = "err" \/ NoPrimaryDoc(response'.r)) =>
                 /\ pc' = "rs_status"
                 /\ result' = result
                 /\ conn' = conn
                 /\ log'[Len(log')] = SendEvent(StatusCmd, conn)]_vars

C22_Witness ==
    /\ pc = "rs_status"
    /\ rs.caller = "shard"
    /\ response.cmd = "replSetGetStatus"
    /\ NoPrimaryDoc(response.r)
    /\ Len(response.r.members) >= 2
    /\ \E i \in DOMAIN log : log[i].ev = "status"

\* ------------------------------------------------------ failures
\* where the launch is about to call start_mongod or start_mongos
SpawnPcs == {"single", "rs_spawn", "config_db", "routers", "shards",
             "respawn_node", "respawn_router"}

\* C23: a start_mongod / start_mongos call that fails ends the launch with the
\* error of the process substrate and no Cluster: the failing step starts no
\* process, sends no command and changes the state of no process, nothing
\* happens after it, and when it happens in the topology sequence every process
\* spawned before it is still running.
C23_SpawnFailure ==
    /\ []((pc = "error" /\ result.error = "Monger" /\ ~restarting.some) =>
            \A p \in DOMAIN procs : procs[p].state = "running")
    /\ [][/\ pc # "error"
          /\ (pc \in SpawnPcs /\ pc' = "error") =>
               /\ result' = [kind |-> "err", error |-> "Monger"]
               /\ procs' = procs
               /\ log' = log
               /\ NodeSpecs' = NodeSpecs
               /\ RouterSpecs' = RouterSpecs]_vars

C23_Witness ==
    /\ pc = "error"
    /\ result = [kind |-> "err", error |-> "Monger"]
    /\ topology.kind = "Sharded"
    /\ Len(routers) = 1
    /\ Len(mongos_ports) = 2
    /\ Len(procs) = 2
    /\ \A p \in DOMAIN procs : procs[p].state = "running"

\* the processes the restart cycle has got to: those it sent a kill for and the
\* one it is working on
Reached ==
    { log[i].pid : i \in Events(LAMBDA e : e.ev = "kill") }
    \cup {restarting.val.process}

\* C24: when a kill, a wait or a respawn of the auth restart fails, the launch
\* ends with an error; every process respawned before the failure is running with
\* the auth flags, every process the cycle has not got to is running as it was
\* started, without them, and every process replaced before the failure stays
\* replaced.
C24_RestartFailure ==
    (pc = "error" /\ restarting.some) =>
      /\ result.kind = "err"
      /\ result.error \in {"Io", "Monger"}
      /\ \A i \in Events(IsSpawn) :
           IF i > CreateUserIdx
           THEN /\ procs[log[i].pid].state = "running"
                /\ AuthFlags(log[i])
           ELSE IF log[i].pid \notin Reached
           THEN /\ procs[log[i].pid].state = "running"
                /\ ~HasArg(log[i].args, "--keyFile")
                /\ ~HasArg(log[i].args, "--auth")
           ELSE log[i].pid # restarting.val.process =>
                  /\ procs[log[i].pid].state = "exited"
                  /\ \E j \in Events(IsSpawn) :
                       /\ j > CreateUserIdx
                       /\ ProcAddress(log[j].args) = ProcAddress(log[i].args)

C24_Witness ==
    /\ pc = "error"
    /\ restarting.some
    /\ result.error = "Io"
    /\ procs[restarting.val.process].state = "signalled"
    /\ Len(nodes) >= 1
    /\ Len(pre_auth_nodes) >= 1
    /\ Len(routers) >= 1
    /\ \A i \in DOMAIN nodes : procs[nodes[i].process].state = "running"
    /\ \A i \in DOMAIN pre_auth_nodes : procs[pre_auth_nodes[i].process].state = "running"

\* ------------------------------------------------------ the handle
\* the processes whose Child the returned Cluster holds
Owned == { result.cluster.nodes[i].process : i \in DOMAIN result.cluster.nodes }

\* C25: at return the Cluster holds the process handle of every process of the
\* launch that is running: every node, the node of a single-directory shard
\* included, and every router.
C25_HandleOwnsAll == Returned => Running \subseteq Owned

\* ------------------------------------------------------ argument vectors
\* the process a step has started
Started == procs'[Len(procs')]

\* the MongodOptions a step has handed to start_mongod
StartedSpec ==
    IF Len(nodes') > Len(nodes) THEN nodes'[Len(nodes')].options
    ELSE SingletonShardOptions(next_port, topology.shard_db_paths[shard_i][1])

\* how often a word occurs in an argument vector
Count(args, word) == Cardinality({ i \in DOMAIN args : args[i] = word })

Flag(present, word) == IF present THEN Some(word) ELSE None

\* C26: the argument vector of every mongod started begins with --port <port>,
\* ends with the caller's extra flags verbatim, and before them holds --dbpath
\* <dir> iff the spec has a data directory, --auth and --keyFile <path> iff a
\* Credential is configured at that moment, --replSet <name> iff the spec has a
\* set name, --configsvr iff configServer, --shardsvr iff shardServer, the TLS
\* mode, CA and certificate flags iff TLS is configured and
\* --tlsAllowConnectionsWithoutCertificates iff it is configured weak; each at
\* most once and nothing else.
C26_MongodArgs ==
    [][(Len(procs') > Len(procs) /\ Started.kind = "mongod") =>
         LET o == StartedSpec
             t == tls
             d == deprecated_tls_options
             n == Len(Started.args) - Len(extra_mongod_args)
             a == SubSeq(Started.args, 1, n)
         IN /\ n >= 2
            /\ SubSeq(Started.args, n + 1, Len(Started.args)) = extra_mongod_args
            /\ SubSeq(a, 1, 2) = <<"--port", ToString(o.port)>>
            /\ ArgAfter(a, "--dbpath") = o.db_path
            /\ Count(a, "--dbpath") = IF o.db_path.some THEN 1 ELSE 0
            /\ Count(a, "--auth") = IF credential.some THEN 1 ELSE 0
            /\ ArgAfter(a, "--keyFile")
                 = Flag(credential.some, TheCredential.key_file)
            /\ ArgAfter(a, "--replSet") = o.repl_set_name
            /\ Count(a, "--configsvr") = IF o.config_server THEN 1 ELSE 0
            /\ Count(a, "--shardsvr") = IF o.shard_server THEN 1 ELSE 0
            /\ ArgAfter(a, "--tlsMode") = Flag(t.some /\ ~d, "requireTLS")
            /\ ArgAfter(a, "--tlsCAFile") = Flag(t.some /\ ~d, "/ca.pem")
            /\ ArgAfter(a, "--tlsCertificateKeyFile") = Flag(t.some /\ ~d, "/server.pem")
            /\ ArgAfter(a, "--sslMode") = Flag(t.some /\ d, "requireSSL")
            /\ ArgAfter(a, "--sslCAFile") = Flag(t.some /\ d, "/ca.pem")
            /\ ArgAfter(a, "--sslPEMKeyFile") = Flag(t.some /\ d, "/server.pem")
            /\ Count(a, "--tlsAllowConnectionsWithoutCertificates")
                 = IF t.some /\ t.val.weak_tls THEN 1 ELSE 0
            /\ n = 2 + (IF o.db_path.some THEN 2 ELSE 0)
                     + (IF credential.some THEN 3 ELSE 0)
                     + (IF o.repl_set_name.some THEN 2 ELSE 0)
                     + (IF o.config_server THEN 1 ELSE 0)
                     + (IF o.shard_server THEN 1 ELSE 0)
                     + (IF t.some THEN 6 ELSE 0)
                     + (IF t.some /\ t.val.weak_tls THEN 1 ELSE 0)]_vars

\* a shard member restarted with auth under weak TLS and with extra flags
C26_Witness ==
    /\ Returned
    /\ credential.some
    /\ tls = Some(TheTls)
    /\ extra_mongod_args # <<>>
    /\ \E i \in DOMAIN nodes :
         /\ nodes[i].options.shard_server
         /\ nodes[i].options.repl_set_name.some
         /\ procs[nodes[i].process].state = "running"
         /\ HasArg(procs[nodes[i].process].args, "--auth")
         /\ HasArg(procs[nodes[i].process].args, "--tlsMode")

\* ------------------------------------------------------ routers and the config server
\* the starts of a config server in the topology sequence
ConfigSpawns ==
    FirstSpawns(LAMBDA e : IsNodeSpawn(e) /\ HasArg(e.args, "--configsvr"))

\* the number of a router start among the router starts of its pass (the
\* topology sequence, or the restart with auth)
RouterRank(i) ==
    Cardinality({ j \in Events(IsRouterSpawn) :
                    j <= i /\ (j < CreateUserIdx <=> i < CreateUserIdx) })

\* C27: the argument vector of every router start begins with --port <port of
\* this router>, --configdb phil-config-server/localhost:<port>, where <port> is
\* the port of the one config server the launch has started; that config server
\* was started with --replSet phil-config-server, and a replica-set configuration
\* of that name with it as the only member was acknowledged before the router
\* start. Stated of the router start that is the latest event of the history, which
\* every router start is in the state it leads to.
C27_RouterArgs ==
    \A i \in { k \in {Len(log)} : k > 0 /\ IsRouterSpawn(log[k]) } :
      /\ Cardinality(ConfigSpawns) = 1
      /\ \A j \in ConfigSpawns :
           /\ j < i
           /\ ArgAfter(log[j].args, "--replSet") = Some("phil-config-server")
           /\ SubSeq(log[i].args, 1, 4)
                = <<"--port", ToString(mongos_ports[RouterRank(i)]), "--configdb",
                    "phil-config-server/" \o ProcAddress(log[j].args)>>
           /\ \E k \in Events(IsConfigAck) :
                /\ j < k
                /\ k < i
                /\ log[k].cmd.config._id = "phil-config-server"
                /\ Len(log[k].cmd.config.members) = 1
                /\ MemberHosts(log[k].cmd.config) = {ProcAddress(log[j].args)}

\* two routers, both restarted with auth
C27_Witness ==
    /\ Returned
    /\ Requested
    /\ Cardinality(Events(IsRouterSpawn)) = 4
    /\ Len(topology.shard_db_paths) >= 1

\* ------------------------------------------------------ TLS and auth flags
TlsAuthWords ==
    {"--auth", "--keyFile", TheCredential.key_file,
     "--tlsMode", "requireTLS", "--tlsCAFile", "--tlsCertificateKeyFile",
     "--sslMode", "requireSSL", "--sslCAFile", "--sslPEMKeyFile",
     "/ca.pem", "/server.pem",
     "--tlsAllowConnectionsWithoutCertificates",
     "--tlsAllowInvalidCertificates", "--sslAllowInvalidCertificates"}

\* the TLS and auth flags, with their values, of an argument vector
TlsAuthFlags(args) == Range(args) \cap TlsAuthWords

\* a mongod start and a mongos start under the same TLS options and Credential:
\* both in the topology sequence or both in the restart with auth
SameContext ==
    { <<i, j>> \in Events(IsNodeSpawn) \X Events(IsRouterSpawn) :
        i < CreateUserIdx <=> j < CreateUserIdx }

\* C28 as claimed: a router's argument vector holds exactly the TLS flags and the
\* auth flags (--auth and --keyFile <path>) of a node's argument vector built
\* under the same TLS options and Credential.
C28_SameFlags ==
    \A p \in SameContext : TlsAuthFlags(log[p[2]].args) = TlsAuthFlags(log[p[1]].args)

\* C28, amended: a router's argument vector holds the TLS flags of a node's
\* argument vector built under the same TLS options and Credential, and with TLS
\* configured also --tlsAllowInvalidCertificates (--sslAllowInvalidCertificates
\* under the deprecated names); of the auth flags it holds --keyFile <path> iff a
\* Credential is configured, and never --auth.
C28_RouterFlags ==
    \A p \in SameContext :
      TlsAuthFlags(log[p[2]].args)
        = (TlsAuthFlags(log[p[1]].args) \ {"--auth"})
          \cup (IF ~tls.some THEN {}
                ELSE IF deprecated_tls_options THEN {"--sslAllowInvalidCertificates"}
                ELSE {"--tlsAllowInvalidCertificates"})

\* a router and the nodes restarted with auth under TLS
C28_Witness ==
    /\ Returned
    /\ credential.some
    /\ tls.some
    /\ \E p \in SameContext :
         /\ p[1] > CreateUserIdx
         /\ "--keyFile" \in TlsAuthFlags(log[p[2]].args)
         /\ "--auth" \in TlsAuthFlags(log[p[1]].args)

\* ------------------------------------------------------ empty lists
\* a ReplicaSet without data directories, or a Sharded topology with a shard
\* without data directories
ZeroLength ==
    \/ topology.kind = "ReplicaSet" /\ topology.db_paths = <<>>
    \/ /\ topology.kind = "Sharded"
       /\ \E i \in DOMAIN topology.shard_db_paths : topology.shard_db_paths[i] = <<>>

\* C29: a launch of a topology with a zero-length member list or shard list
\* starts no process, and ends only with an error.
C29_EmptyListRejected ==
    ZeroLength =>
      /\ procs = <<>>
      /\ pc \in {"done", "error", "panic"} => result.kind = "err"

\* ------------------------------------------------------ shutdown
\* C30: a shutdown of the returned Cluster sends exactly one shutdown command,
\* over the connection parameters of the handle (its entry point), and whatever
\* the command yields (ok, an error document, a malformed document, a transport
\* error) the call has returned and no error is reported.
C30_ShutdownBestEffort ==
    response.cmd = "shutdown" =>
      /\ pc = "closed"
      /\ result.kind = "ok"
      /\ Cardinality(Events(LAMBDA e : IsSend(e, "shutdown"))) = 1
      /\ log[Len(log)] = [ev |-> "send", cmd |-> [name |-> "shutdown"],
                          conn |-> [hosts |-> ReturnedHosts,
                                    credential |-> result.cluster.client_options.credential,
                                    direct |-> FALSE]]

\* a sharded cluster with auth whose router fails to answer the shutdown
C30_Witness ==
    /\ pc = "closed"
    /\ response = [cmd |-> "shutdown", r |-> [kind |-> "err"]]
    /\ topology.kind = "Sharded"
    /\ Requested
    /\ Len(ReturnedHosts) = 2

\* ------------------------------------------------------ outcomes
\* C31: a launch that is over has returned a Cluster handle or an error; no
\* launch ends in any other way.
C31_TwoOutcomes ==
    pc \notin {"done", "closed", "error"} => result.kind = "running"

\* ------------------------------------------------------ the allocators
\* C32: no call of next_port or next_shard_id fails, whatever the counter holds;
\* each returns the value the counter held, which was one more (in the counter's
\* width) than the value returned before.
C32_AllocatorsNeverFail ==
    /\ pc # "panic"
    /\ \A i \in DOMAIN mongos_ports :
         IF i = Len(mongos_ports)
         THEN next_port = (mongos_ports[i] + 1) % U16
         ELSE mongos_ports[i + 1] = (mongos_ports[i] + 1) % U16
    /\ rs.name # "" => rs.name = ShardName((shard_count + U8 - 1) % U8)

\* ------------------------------------------------------ shard names
\* the addShard commands sent, in order (a command is in the history once)
AddShardSends == Events(LAMBDA e : IsSend(e, "addShard"))

\* the number, from 0, of an addShard command among those sent
ShardRank(i) == Cardinality({ j \in AddShardSends : j < i })

\* C33: the k-th addShard command of a Sharded launch (k from 0) is the one for
\* the k-th shard of the topology and registers it as phil-replset-shard-k: a
\* one-directory shard by the address of its node, any other by the set name its
\* members were started with, which is that same name; no two commands carry the
\* same name. Stated of the command sent last, which every command is when sent.
C33_ShardNames ==
    \A i \in { n \in {Len(log), Len(log) - 1} : n > 0 /\ IsSend(log[n], "addShard") } :
      LET k == ShardRank(i)
          name == "phil-replset-shard-" \o ToString(k)
      IN /\ k + 1 \in Shards
         /\ log[i].cmd.shard = name
         /\ \A j \in AddShardSends : j # i => log[j].cmd.shard # name
         /\ IF ShardSize(k + 1) = 1
            THEN /\ log[i].cmd.addShard = ExpectedSingletonArg(k + 1)
                 /\ \A s \in ShardMembers(k + 1) : SetNameOf(s) = None
            ELSE /\ ShardMembers(k + 1) # {}
                 /\ \A s \in ShardMembers(k + 1) : SetNameOf(s) = Some(name)
                 /\ log[i].cmd.addShard = ExpectedReplsetArg(k + 1)

\* five shards, standalone and replica set alternating from a standalone one
C33_Witness ==
    /\ Returned
    /\ topology.kind = "Sharded"
    /\ Len(topology.shard_db_paths) = WideShards
    /\ \A k \in Shards : ShardSize(k) = IF k % 2 = 1 THEN 1 ELSE 2
    /\ Cardinality(AddShardSends) = WideShards

\* ------------------------------------------------------ the configsvr flag
\* the starts, in the topology sequence, of the members a configuration lists
MemberSpawns(config) ==
    { s \in FirstSpawns(IsNodeSpawn) : ProcAddress(log[s].args) \in MemberHosts(config) }

\* C34: a replSetInitiate / replSetReconfig carries configsvr = true exactly when
\* the set it configures is the config server's, that is when its members were
\* started with --configsvr; for the set of a ReplicaSet topology and for a shard's
\* set the value sent is false. Stated of the command sent last, which every
\* command is when sent.
C34_ConfigsvrFlag ==
    \A i \in { n \in {Len(log), Len(log) - 1} : n > 0 /\ IsConfigSend(log[n]) } :
      LET config == log[i].cmd.config
      IN /\ config.configsvr \in BOOLEAN
         /\ MemberSpawns(config) # {}
         /\ \A s \in MemberSpawns(config) :
              /\ config.configsvr <=> HasArg(log[s].args, "--configsvr")
              /\ SetNameOf(s) = Some(config._id)
         /\ config.configsvr <=> (topology.kind = "Sharded" /\ config._id = ConfigDbName)

\* a Sharded launch that has configured the config server and a shard's set,
\* the latter after an AlreadyInitialized answer
C34_Witness ==
    /\ Returned
    /\ \E i \in Events(IsConfigAck) : log[i].cmd.config.configsvr
    /\ \E i \in Events(LAMBDA e : IsAck(e, "replSetReconfig")) :
         ~log[i].cmd.config.configsvr

\* ------------------------------------------------------ the restart, step by step
Live(p) == procs[p].state # "exited"

\* the latest event of the history, if it is of the given kind
Latest(Test(_)) == { n \in {Len(log)} : n > 0 /\ Test(log[n]) }

\* C35: (a) a process is never started on the address of a process of this
\* launch that has not exited; a process started in the restart takes the
\* address of one that was sent a kill and then waited on until it exited;
\* (b) when a process is sent its kill, every process sent one before has exited
\* and has its replacement, was started before this one if of the same kind, and
\* no router was sent a kill before a node; when the first router is sent its kill, every node of the
\* registry is a replacement. Stated of the latest event of the history, which
\* every start and every kill is in the state it leads to.
C35_OneAtATime ==
    /\ \A s \in Latest(IsSpawn) :
         /\ \A q \in DOMAIN procs :
              (q # log[s].pid /\ Live(q)) =>
                 ProcAddress(procs[q].args) # ProcAddress(log[s].args)
         /\ s > CreateUserIdx =>
              \E k, e \in DOMAIN log :
                /\ k < e
                /\ e < s
                /\ log[k].ev = "kill"
                /\ log[e].ev = "exit"
                /\ log[k].pid = log[e].pid
                /\ procs[log[k].pid].kind = log[s].kind
                /\ ProcAddress(procs[log[k].pid].args) = ProcAddress(log[s].args)
                /\ \A x \in DOMAIN log : (k < x /\ x < s) => x = e
    /\ \A k \in Latest(LAMBDA e : e.ev = "kill") :
         /\ Live(log[k].pid)
         /\ \A j \in Events(LAMBDA e : e.ev = "kill") :
              j < k =>
                /\ ~Live(log[j].pid)
                /\ procs[log[j].pid].kind = procs[log[k].pid].kind =>
                     log[j].pid < log[k].pid
                /\ procs[log[j].pid].kind = "mongos" => procs[log[k].pid].kind = "mongos"
                /\ log[j + 1] = [ev |-> "exit", pid |-> log[j].pid]
                /\ IsSpawn(log[j + 2])
                /\ j + 2 < k
         /\ procs[log[k].pid].kind = "mongos" =>
              /\ pre_auth_nodes = <<>>
              /\ \A i \in DOMAIN nodes :
                   /\ Live(nodes[i].process)
                   /\ \E s \in Events(IsNodeSpawn) :
                        s > CreateUserIdx /\ log[s].pid = nodes[i].process

\* a Sharded launch with two routers and a replica-set shard, all restarted
C35_Witness ==
    /\ Returned
    /\ Requested
    /\ Len(routers) = 2
    /\ Len(nodes) >= 3
    /\ Cardinality(Events(LAMBDA e : e.ev = "kill")) = Len(nodes) + Len(routers)
    /\ \A p \in DOMAIN procs :
         Live(p) <=> \E s \in Events(IsSpawn) : s > CreateUserIdx /\ log[s].pid = p

\* ------------------------------------------------------ the ports of a Sharded launch
RECURSIVE Flatten(_)
Flatten(seqs) == IF seqs = <<>> THEN <<>> ELSE Head(seqs) \o Flatten(Tail(seqs))

\* the starts of shard nodes in the topology sequence
ShardSpawns ==
    FirstSpawns(LAMBDA e : IsNodeSpawn(e) /\ ~HasArg(e.args, "--configsvr"))

PortArg(p) == Some(ToString(p))

\* C36: in a Sharded launch from base port b with R routers, the r-th router is
\* started on b + r - 1, the config server on b + R, and the n-th shard node on
\* b + R + n with the n-th data directory of the shards taken in order; when the
\* config server is started the R router ports are already set aside and no
\* router has been started. Stated of the latest event of the history, which
\* every start is in the state it leads to.
C36_ShardedPorts ==
    \A s \in { n \in Latest(IsSpawn) : n < CreateUserIdx /\ topology.kind = "Sharded" } :
      LET R == topology.num_mongos
          port == ArgAfter(log[s].args, "--port")
      IN IF log[s].kind = "mongos"
         THEN /\ RouterRank(s) <= R
              /\ port = PortArg(BasePort + RouterRank(s) - 1)
              /\ ConfigSpawns # {}
         ELSE IF HasArg(log[s].args, "--configsvr")
         THEN /\ port = PortArg(BasePort + R)
              /\ mongos_ports = [r \in 1..R |-> BasePort + r - 1]
              /\ Events(IsRouterSpawn) = {}
              /\ ShardSpawns = {}
         ELSE LET n == Cardinality(ShardSpawns)
                  dirs == Flatten(topology.shard_db_paths)
              IN /\ n <= Len(dirs)
                 /\ port = PortArg(BasePort + R + n)
                 /\ ArgAfter(log[s].args, "--dbpath") = Some(dirs[n])
                 /\ Cardinality(Events(IsRouterSpawn)) = R

\* a finished launch of two routers and a two-node shard followed by a single-node
\* shard, whose last node runs on base + 2 + 3
C36_Witness ==
    /\ Returned
    /\ topology.kind = "Sharded"
    /\ topology.num_mongos = 2
    /\ Len(topology.shard_db_paths) = 2
    /\ Len(topology.shard_db_paths[1]) = 2
    /\ Len(topology.shard_db_paths[2]) = 1
    /\ \E s \in ShardSpawns : ArgAfter(log[s].args, "--port") = PortArg(BasePort + 5)
    /\ \E s \in ConfigSpawns : ArgAfter(log[s].args, "--port") = PortArg(BasePort + 2)

\* ------------------------------------------------------ the router of addShard
NoRouterButShards ==
    /\ topology.kind = "Sharded"
    /\ topology.num_mongos = 0
    /\ Len(topology.shard_db_paths) >= 1

\* C37: every addShard is sent over a connection to the one address of the
\* first router, whose port is the lowest of the router ports and on which the
\* first router was started; a Sharded launch without routers and with a shard
\* never returns a cluster, sends no addShard and starts no process but the
\* config server; it stops by panicking only with the config server started, and
\* an error it returns with nothing started is the failure to start the config
\* server itself. The addShard part is
\* stated of the latest send of the history, which every send is in the state it
\* leads to.
C37_FirstRouterOnly ==
    /\ \A j \in { n \in {Len(log), Len(log) - 1} : n > 0 /\ IsSend(log[n], "addShard") } :
         /\ topology.kind = "Sharded"
         /\ topology.num_mongos >= 1
         /\ log[j].conn.hosts = <<localhost_address(mongos_ports[1])>>
         /\ \A r \in DOMAIN mongos_ports : mongos_ports[1] <= mongos_ports[r]
         /\ \E s \in FirstSpawns(IsRouterSpawn) :
              /\ RouterRank(s) = 1
              /\ ArgAfter(log[s].args, "--port") = Some(ToString(mongos_ports[1]))
    /\ NoRouterButShards =>
         /\ pc \notin {"done", "closed"}
         /\ result.kind # "ok"
         /\ Events(LAMBDA e : IsSend(e, "addShard")) = {}
         /\ Events(IsSpawn) = ConfigSpawns
         /\ pc = "panic" => Cardinality(ConfigSpawns) = 1
         /\ (pc = "error" /\ ConfigSpawns = {}) => result.error = "Monger"

\* both shards of a launch with two routers were added through the first
C37_Witness ==
    /\ Returned
    /\ topology.kind = "Sharded"
    /\ topology.num_mongos = 2
    /\ Cardinality(Events(LAMBDA e : IsAck(e, "addShard"))) = 2
    /\ \A j \in Events(LAMBDA e : IsSend(e, "addShard")) :
         log[j].conn.hosts = <<localhost_address(BasePort)>>

\* a launch without routers has stopped at its first shard
C37_NoRouterStopped ==
    /\ NoRouterButShards
    /\ pc = "panic"
    /\ ConfigSpawns # {}

\* ------------------------------------------------------ a failed createUser
CreateUserFailed ==
    /\ response.cmd = "createUser"
    /\ \/ response.r.kind = "err"
       \/ response.r.kind = "doc" /\ response.r.ok # 1

\* C38: while the answer to createUser is a transport error or a document whose
\* ok is not 1, the launch has returned an error, no process has been sent a
\* kill or started anew, and every process of the launch is running.
C38_CreateUserFailure ==
    CreateUserFailed =>
      /\ pc = "error"
      /\ result.kind = "err"
      /\ Events(LAMBDA e : e.ev = "kill") = {}
      /\ \A i \in Events(IsSpawn) : i < CreateUserIdx
      /\ \A p \in DOMAIN procs : procs[p].state = "running"

\* ------------------------------------------------------ passthrough flags
\* the position of the first --setParameter of the caller's flags, 0 if none
FirstSetParameter ==
    LET hits == { i \in DOMAIN extra_mongod_args : extra_mongod_args[i] = "--setParameter" }
    IN IF hits = {} THEN 0 ELSE CHOOSE i \in hits : \A k \in hits : i <= k

\* C39: a router's argument vector holds words of the caller's extra flags only
\* right after --port and --configdb with their values: there --setParameter if
\* the flags have one, followed by the argument that follows the first
\* --setParameter in the flags if there is one, and nothing of the flags
\* anywhere else; a node's argument vector ends with all the extra flags in
\* their order and holds each of their words as often as the flags do. Stated of
\* the latest event of the history, which every start is in the state it leads
\* to.
C39_ExtraFlags ==
    \A s \in Latest(IsSpawn) :
      LET a == log[s].args
          x == extra_mongod_args
          f == FirstSetParameter
      IN IF log[s].kind = "mongos"
         THEN /\ \A i \in DOMAIN a : (i > 6 \/ i < 5) => a[i] \notin Range(x)
              /\ f > 0 =>
                   /\ Len(a) >= 5
                   /\ a[5] = "--setParameter"
                   /\ f < Len(x) => (Len(a) >= 6 /\ a[6] = x[f + 1])
              /\ (Len(a) >= 5 /\ a[5] \in Range(x)) => a[5] = "--setParameter"
              /\ (Len(a) >= 6 /\ a[6] \in Range(x)) =>
                   /\ a[5] = "--setParameter"
                   /\ f > 0
                   /\ f < Len(x) => a[6] = x[f + 1]
              /\ (f = 0 /\ ~monger_default_args.some) => ~HasArg(a, "--setParameter")
         ELSE /\ Len(a) >= Len(x)
              /\ SubSeq(a, Len(a) - Len(x) + 1, Len(a)) = x
              /\ \A w \in Range(x) : Count(a, w) = Count(x, w)

\* a router and a node were started with flags that hold two --setParameter
\* pairs among other flags
C39_Witness ==
    /\ Returned
    /\ Len(extra_mongod_args) = 6
    /\ FirstSetParameter = 2
    /\ \E s \in Events(IsRouterSpawn) :
         /\ SubSeq(log[s].args, 5, 6) = SubSeq(extra_mongod_args, 2, 3)
         /\ ~HasArg(log[s].args, "--quiet")
    /\ \E s \in Events(IsNodeSpawn) : HasArg(log[s].args, "--nojournal")

====
